---- MODULE Spec2Model ----
(***************************************************************************)
(* kabob: a command-line helper for monorepo workspaces.                   *)
(*                                                                         *)
(* The repository holds several generations of the same commands: the     *)
(* root index.js, its rewrite src/index.ts, and the package command in    *)
(* src/commands/package.js and src/commands/package.ts.  Each generation  *)
(* is modelled by its own operators and actions, named after the file.    *)
(*                                                                         *)
(* Strings are sequences of lexical tokens ("@", "/", "*", "workspace:",  *)
(* "file:" and identifiers), so that split, replace, endsWith and string  *)
(* concatenation are computed, not assumed.                                *)
(***************************************************************************)
EXTENDS Integers, Sequences, FiniteSets, TLC

VARIABLES
    manifests,   \* workspace path -> parsed package.json, or "malformed"
    depCall,     \* the last direct call of the package-json.js functions
    pc,          \* position of the running add/remove/install invocation
    inv,         \* the invocation: generation, command, manager, arguments
    idx,         \* number of selected workspaces already handled
    running,     \* package-manager subprocesses currently running
    cmdlog,      \* every subprocess started so far, in order
    outcomes,    \* how each started subprocess ended ("running" while it runs)
    exitCode,    \* process exit status, NoExit while the process runs
    exitVia,     \* which path ended the process
    produced,    \* version tokens produced by internal adds
    interrupt,   \* the interrupt signal that arrived during the batch, if any
    reported,    \* what the invocation printed: warnings, errors, notices
    rootCfg,     \* the root package.json and pnpm-workspace.yaml
    disk,        \* the member directories on disk, in traversal order
    found,       \* the result of the last workspace discovery
    tree,        \* member directory -> its files
    turbo,       \* the build outputs of the root turbo.json
    pkgCall      \* the last package create / delete / list

depVars   == <<manifests, depCall>>
batchVars == <<pc, inv, idx, running, cmdlog, outcomes, exitCode, exitVia,
               produced, interrupt, reported>>
resVars   == <<rootCfg, disk, found>>
pkgVars   == <<tree, turbo, pkgCall>>
vars      == <<manifests, depCall, pc, inv, idx, running, cmdlog, outcomes,
               exitCode, exitVia, produced, interrupt, reported, rootCfg, disk,
               found, tree, turbo, pkgCall>>

-----------------------------------------------------------------------------
(* Bounds of the model *)

MaxDeps == 2          \* longest list of dependency arguments of one call

-----------------------------------------------------------------------------
(* Strings *)

Str(tok) == <<tok>>

Star          == <<"*">>
WorkspaceStar == <<"workspace:", "*">>

\* s.endsWith(t)
EndsWith(s, t) ==
    /\ Len(s) >= Len(t)
    /\ SubSeq(s, Len(s) - Len(t) + 1, Len(s)) = t

Range(s) == {s[i] : i \in 1..Len(s)}

\* package names of the model: one scoped, one unscoped, one in the scope
\* "workspace" (the name of the test in test.js)
NameUi     == <<"@", "repo", "/", "ui">>
NameCore   == <<"core">>
NameTsconf == <<"@", "workspace", "/", "tsconfig">>
PkgNames   == {NameUi, NameCore, NameTsconf}

PackageManagers == {"npm", "yarn", "pnpm"}

-----------------------------------------------------------------------------
(* src/utils/package-json.js *)

\* dep.replace(/@workspace:$/, '')
StripWorkspaceSuffix(dep) ==
    IF EndsWith(dep, <<"@", "workspace:">>)
    THEN SubSeq(dep, 1, Len(dep) - 2)
    ELSE dep

\* packageManager === 'pnpm' ? 'workspace:*' : '*'
InternalVersion(packageManager) ==
    IF packageManager = "pnpm" THEN WorkspaceStar ELSE Star

\* obj[key] = value on a JSON object held as a function
Put(obj, key, value) ==
    [k \in DOMAIN obj \cup {key} |-> IF k = key THEN value ELSE obj[k]]

\* delete obj[key]
Delete(obj, key) == [k \in DOMAIN obj \ {key} |-> obj[k]]

EmptyObj == [k \in {} |-> Star]

\* a loop that uses every argument as it is for the key
AddLoop_KeepsSuffix(obj, dependencies, packageManager) ==
    [k \in DOMAIN obj \cup Range(dependencies) |->
        IF k \in Range(dependencies) THEN InternalVersion(packageManager)
        ELSE obj[k]]

\* the loop of addDependencies over the remaining arguments
RECURSIVE AddLoop(_, _, _)
AddLoop(obj, dependencies, packageManager) ==
    IF dependencies = <<>> THEN obj
    ELSE AddLoop(Put(obj, StripWorkspaceSuffix(Head(dependencies)),
                     InternalVersion(packageManager)),
                 Tail(dependencies), packageManager)

\* the loop of removeDependencies over the remaining arguments
RECURSIVE RemoveLoop(_, _)
RemoveLoop(obj, dependencies) ==
    IF dependencies = <<>> THEN obj
    ELSE RemoveLoop(Delete(obj, StripWorkspaceSuffix(Head(dependencies))),
                    Tail(dependencies))

\* a package.json whose text JSON.parse rejects
Malformed == [parses |-> FALSE]

\* JSON.parse(readFileSync(...)) throws on a manifest that does not parse
Parses(m) == m.parses

\* an addDependencies that writes the manifest back without its
\* devDependencies
AddDependencies_DropsDevDeps(m, dependencies, packageManager) ==
    IF ~Parses(m) THEN [threw |-> TRUE, manifest |-> m]
    ELSE [threw |-> FALSE,
          manifest |-> [m EXCEPT
              !.hasDeps = TRUE,
              !.devDeps = EmptyObj,
              !.deps = AddLoop(IF m.hasDeps THEN m.deps ELSE EmptyObj,
                               dependencies, packageManager)]]

\* addDependencies: the manifest written back, and whether the call threw
AddDependencies(m, dependencies, packageManager) ==
    IF ~Parses(m) THEN [threw |-> TRUE, manifest |-> m]
    ELSE [threw |-> FALSE,
          manifest |-> [m EXCEPT
              !.hasDeps = TRUE,
              !.deps = AddLoop(IF m.hasDeps THEN m.deps ELSE EmptyObj,
                               dependencies, packageManager)]]

\* a removeDependencies that lacks the guard on pkgJson.dependencies:
\* delete undefined[name] is a TypeError
RemoveDependencies_NoGuard(m, dependencies) ==
    IF ~Parses(m) THEN [threw |-> TRUE, manifest |-> m]
    ELSE IF ~m.hasDeps /\ dependencies # <<>>
         THEN [threw |-> TRUE, manifest |-> m]
         ELSE [threw |-> FALSE,
               manifest |-> [m EXCEPT !.deps = RemoveLoop(m.deps, dependencies)]]

\* removeDependencies: the manifest written back, and whether the call threw
RemoveDependencies(m, dependencies) ==
    IF ~Parses(m) THEN [threw |-> TRUE, manifest |-> m]
    ELSE [threw |-> FALSE,
          manifest |-> IF m.hasDeps
                       THEN [m EXCEPT !.deps = RemoveLoop(m.deps, dependencies)]
                       ELSE m]

\* the entries of a manifest's dependency map
DepEntries(m) ==
    IF Parses(m) /\ m.hasDeps THEN {<<k, m.deps[k]>> : k \in DOMAIN m.deps}
    ELSE {}

-----------------------------------------------------------------------------
(* The workspaces of the project and their manifests *)

WsUi   == <<"packages", "/", "ui">>
WsCore == <<"packages", "/", "core">>
WsWeb  == <<"apps", "/", "web">>
AllWs  == <<WsWeb, WsCore, WsUi>>          \* in sorted order
WsSet == Range(AllWs)

Manifest(name, private, hasDeps, deps) ==
    [parses |-> TRUE, name |-> name, version |-> "1.0.0", private |-> private,
     hasDeps |-> hasDeps, deps |-> deps,
     devDeps |-> [k \in {Str("typescript")} |-> Str("latest")]]

NameWeb == <<"web">>

ManifestOf(w) ==
    IF w = WsUi THEN {Manifest(NameUi, FALSE, FALSE, EmptyObj),
                      Manifest(NameUi, FALSE, TRUE, EmptyObj),
                      Manifest(NameUi, FALSE, TRUE, [k \in {NameCore} |-> Str("^1")])}
    ELSE IF w = WsCore THEN {Manifest(NameCore, FALSE, FALSE, EmptyObj)}
    ELSE {Manifest(NameWeb, TRUE, FALSE, EmptyObj),
          Manifest(NameWeb, FALSE, TRUE, [k \in {NameUi} |-> Star]),
          Malformed}

\* the arguments the functions are called with: bare names, names with the
\* "@workspace:" suffix of test.js, names with "@workspace:*"
DepArgs ==
    {NameUi, NameCore,
     NameTsconf \o <<"@", "workspace:">>,
     NameUi \o <<"@", "workspace:", "*">>}

SeqsUpTo(S, n) == UNION {[1..k -> S] : k \in 0..n}

NoCall == [fn |-> "none"]

ManifestInits == {f \in [WsSet -> UNION {ManifestOf(w) : w \in WsSet}] :
                     \A w \in WsSet : f[w] \in ManifestOf(w)}

-----------------------------------------------------------------------------
(* Direct calls of package-json.js, as test.js makes them *)

CallAddDependencies(w, dependencies, packageManager) ==
    /\ depCall.fn = "none"
    /\ UNCHANGED <<batchVars, resVars, pkgVars>>
    /\ LET r == AddDependencies(manifests[w], dependencies, packageManager) IN
       /\ manifests' = [manifests EXCEPT ![w] = r.manifest]
       /\ depCall' = [fn |-> "add", ws |-> w, deps |-> dependencies,
                      pm |-> packageManager, threw |-> r.threw,
                      before |-> manifests]

\* removeDependencies, called first or right after an addDependencies
CallRemoveDependencies(w, dependencies) ==
    /\ depCall.fn \in {"none", "add"}
    /\ depCall.fn = "add" => w = depCall.ws
    /\ UNCHANGED <<batchVars, resVars, pkgVars>>
    /\ LET r == RemoveDependencies(manifests[w], dependencies) IN
       /\ manifests' = [manifests EXCEPT ![w] = r.manifest]
       /\ depCall' = [fn |-> IF depCall.fn = "add" THEN "add-remove" ELSE "remove",
                      ws |-> w, deps |-> dependencies,
                      pm |-> "npm", threw |-> r.threw, before |-> manifests,
                      prev |-> depCall]


-----------------------------------------------------------------------------
(* add / remove / install: the invocation *)

\* the subsequence of s at the indices in I, in order (what a checkbox
\* prompt returns: the checked choices in the order they were offered)
Pick(s, I) ==
    LET F[i \in 0..Len(s)] ==
            IF i = 0 THEN <<>>
            ELSE IF i \in I THEN Append(F[i - 1], s[i]) ELSE F[i - 1]
    IN F[Len(s)]

Map(s, Op(_)) == [i \in 1..Len(s) |-> Op(s[i])]

\* findInternalPackages of index.js: named, non-private members that parse
JsFindInternalPackages ==
    LET ok == {i \in 1..Len(AllWs) :
                  /\ Parses(manifests[AllWs[i]])
                  /\ ~manifests[AllWs[i]].private}
        Entry(w) == [name |-> manifests[w].name,
                     version |-> manifests[w].version, path |-> w]
    IN Map(Pick(AllWs, ok), Entry)

\* findInternalPackages of index.ts: every member whose manifest parses
TsFindInternalPackages ==
    LET ok == {i \in 1..Len(AllWs) : Parses(manifests[AllWs[i]])}
        Entry(w) == [name |-> manifests[w].name,
                     version |-> manifests[w].version, path |-> w]
    IN Map(Pick(AllWs, ok), Entry)

\* the value of a choice of selectInternalPackages: `${pkg.name}@workspace:*`
JsInternalChoice(pkg) == pkg.name \o <<"@", "workspace:", "*">>

\* a lookup that takes the first internal package whatever the name is
TsFindMatch_First(internalPackages, pkg) ==
    IF internalPackages = <<>> THEN 0 ELSE 1

\* internalNames.find(name => name === pkg || name.endsWith(`/${pkg}`)):
\* the index of the first match, 0 when there is none
TsFindMatch(internalPackages, pkg) ==
    LET hits == {i \in 1..Len(internalPackages) :
                    \/ internalPackages[i].name = pkg
                    \/ EndsWith(internalPackages[i].name, <<"/">> \o pkg)}
    IN IF hits = {} THEN 0 ELSE CHOOSE i \in hits : \A j \in hits : i <= j

\* the switch on pm.name of addToWorkspaces
TsFormatInternal(pmName, match, matchingPackage) ==
    CASE pmName = "pnpm" -> match \o <<"@", "workspace:", "*">>
      [] pmName = "yarn" -> WorkspaceStar
      [] pmName = "npm"  -> <<"file:">> \o matchingPackage.path
      [] OTHER           -> match

\* packages.map(...) of addToWorkspaces under --internal
TsResolveInternalAdd(packages, internalPackages, pmName) ==
    IF \E i \in 1..Len(packages) : TsFindMatch(internalPackages, packages[i]) = 0
    THEN [threw |-> TRUE, packages |-> packages]
    ELSE [threw |-> FALSE,
          packages |-> [i \in 1..Len(packages) |->
              LET p == internalPackages[TsFindMatch(internalPackages, packages[i])]
              IN TsFormatInternal(pmName, p.name, p)]]

\* packages.map(...) of removeFromWorkspaces under --internal
TsResolveInternalRemove(packages, internalPackages) ==
    IF \E i \in 1..Len(packages) : TsFindMatch(internalPackages, packages[i]) = 0
    THEN [threw |-> TRUE, packages |-> packages]
    ELSE [threw |-> FALSE,
          packages |-> [i \in 1..Len(packages) |->
              internalPackages[TsFindMatch(internalPackages, packages[i])].name]]

\* the version part of a package argument name@version: what follows the
\* last "@" that is not the scope's; the whole argument when it names no
\* package
VersionPart(arg) ==
    LET ats == {i \in 2..Len(arg) : arg[i] = "@"}
    IN IF ats = {} THEN arg
       ELSE SubSeq(arg, (CHOOSE i \in ats : \A j \in ats : j <= i) + 1, Len(arg))


-----------------------------------------------------------------------------
(* Command lines.  A command line is a sequence of words, each a string. *)

\* a table that makes a command line of any action
JsCommandLine_AnyAction(packageManager, command, packages, packageName) ==
    <<Str(packageManager), Str(command)>> \o packages

\* the commands table of executeInWorkspace (index.js); <<>> when the table
\* has no generator for the command
JsCommandLine(packageManager, command, packages, packageName) ==
    CASE packageManager = "npm" /\ command = "add" ->
            <<Str("npm"), Str("install")>> \o packages
                \o << <<"--workspace=">> \o packageName >>
      [] packageManager = "npm" /\ command = "remove" ->
            <<Str("npm"), Str("uninstall")>> \o packages
                \o << <<"--workspace=">> \o packageName >>
      [] packageManager = "npm" /\ command = "install" ->
            <<Str("npm"), Str("install"), <<"--workspace=">> \o packageName>>
      [] packageManager = "yarn" /\ command = "add" ->
            <<Str("yarn"), Str("workspace"), packageName, Str("add")>> \o packages
      [] packageManager = "yarn" /\ command = "remove" ->
            <<Str("yarn"), Str("workspace"), packageName, Str("remove")>> \o packages
      [] packageManager = "yarn" /\ command = "install" ->
            <<Str("yarn"), Str("workspace"), packageName, Str("install")>>
      [] packageManager = "pnpm" /\ command = "add" ->
            <<Str("pnpm"), Str("add")>> \o packages \o <<Str("--filter"), packageName>>
      [] packageManager = "pnpm" /\ command = "remove" ->
            <<Str("pnpm"), Str("remove")>> \o packages \o <<Str("--filter"), packageName>>
      [] packageManager = "pnpm" /\ command = "install" ->
            <<Str("pnpm"), Str("install"), Str("--filter"), packageName>>
      [] OTHER -> <<>>

\* resolveCommand of the package-manager-detector library, as index.ts calls
\* it: the manager's binary and the verb of the action, then the arguments
ResolveCommand(pmName, action, args) ==
    LET verb == CASE action = "add" -> IF pmName = "npm" THEN "i" ELSE "add"
                  [] action = "uninstall" ->
                        IF pmName = "npm" THEN "uninstall" ELSE "remove"
                  [] action = "install" ->
                        IF pmName = "yarn" THEN "install" ELSE "i"
    IN [command |-> Str(pmName), args |-> <<Str(verb)>> \o args]

\* an install that gives every manager pnpm's flag for --clean
TsInstallFlags_ForceForAll(pmName, clean, frozen) ==
    (IF clean THEN <<Str("--force")>> ELSE <<>>)
    \o (IF frozen THEN <<Str("--frozen-lockfile")>> ELSE <<>>)

\* the flags the install command of index.ts appends
TsInstallFlags(pmName, clean, frozen) ==
    (IF clean
     THEN CASE pmName = "npm"  -> <<Str("--clean-install")>>
            [] pmName = "pnpm" -> <<Str("--force")>>
            [] pmName = "yarn" -> <<Str("--clean")>>
            [] OTHER -> <<>>
     ELSE <<>>)
    \o (IF frozen /\ pmName \in {"npm", "pnpm", "yarn"}
        THEN <<Str("--frozen-lockfile")>> ELSE <<>>)

\* the command line index.ts spawns in one workspace
TsCommandLine(i) ==
    LET c == CASE i.cmd = "add" ->
                    ResolveCommand(i.pm, "add",
                        i.packages \o (IF i.dev THEN <<Str("--dev")>> ELSE <<>>))
               [] i.cmd = "remove" -> ResolveCommand(i.pm, "uninstall", i.packages)
               [] i.cmd = "install" -> ResolveCommand(i.pm, "install", <<>>)
        flags == IF i.cmd = "install" THEN TsInstallFlags(i.pm, i.clean, i.frozen)
                 ELSE <<>>
    IN <<c.command>> \o c.args \o flags

-----------------------------------------------------------------------------
(* Inputs of an invocation *)

Commands == {"add", "remove", "install"}

\* an action the commands table of executeInWorkspace does not hold
OutsideTable == "update"

CliPackages == {<<>>, <<Str("react")>>, <<Str("ui")>>, <<NameUi, NameWeb>>,
                <<Str("nope")>>}

NoWorkspaceOption == <<>>
WorkspaceOptions  == {NoWorkspaceOption, WsUi, WsWeb, <<"docs">>}

\* a check that finds a package.json wherever it looks
HasPackageJson_Always(w) == TRUE

\* fs.existsSync(path.join(workspace, 'package.json'))
HasPackageJson(w) == w \in WsSet

\* what a subprocess can do: exit 0, exit non-zero, die from SIGINT/SIGTERM
Outcomes == {"ok", "fail", "signal"}

Exit(code, via) ==
    /\ pc' = "exited"
    /\ exitCode' = code
    /\ exitVia' = via

\* one printed line: console.error ("error"), console.warn ("warn") or
\* console.log ("log"), the message and the workspace it names
Message(level, msg, ws) == [level |-> level, msg |-> msg, ws |-> ws]

\* console.error(chalk.red('Error:'), error.message) of the actions' catch
Err(msg) == Message("error", msg, <<>>)

\* the lines the invocation prints in this step
Say(lines) == reported' = reported \o lines

\* the console.warn of findInternalPackages (index.js, index.ts): one line
\* for every member whose package.json cannot be read, in discovery order
FindInternalPackagesWarnings ==
    LET bad == {i \in 1..Len(AllWs) : ~Parses(manifests[AllWs[i]])}
    IN Map(Pick(AllWs, bad),
           LAMBDA w : Message("warn", "Could not read package.json", w))

NoInterrupt == [seen |-> FALSE]

\* SIGINT / SIGTERM reaches the foreground process group while kabob waits in
\* execSync / spawnSync: the subprocess dies from it (outcome "signal").
\* The record keeps what the project looked like at that moment.
OnSignal(outcome) ==
    IF outcome = "signal" /\ ~interrupt.seen
    THEN [seen |-> TRUE, manifests |-> manifests, started |-> Len(cmdlog)]
    ELSE interrupt

\* the lock files a project may hold, in the order detectPackageManager of
\* index.js looks for them
LockFiles == <<"yarn.lock", "package-lock.json", "pnpm-lock.yaml">>

LockSets == SUBSET Range(LockFiles)

\* the manager a lock file belongs to
ManagerOf(file) ==
    CASE file = "yarn.lock"         -> "yarn"
      [] file = "package-lock.json" -> "npm"
      [] file = "pnpm-lock.yaml"    -> "pnpm"

\* detectPackageManager of index.js and workspace.js: the manager of the
\* first lock file found, npm when there is none
JsDetectPackageManager(locks) ==
    LET hits == {i \in 1..Len(LockFiles) : LockFiles[i] \in locks}
    IN IF hits = {} THEN "npm"
       ELSE ManagerOf(LockFiles[CHOOSE i \in hits : \A j \in hits : i <= j])

\* detect() of the package-manager-detector library, as src/index.ts uses
\* it: null ("none") when nothing tells the manager; the library's order of
\* preference among several lock files is not part of this repository, so
\* any of the managers whose lock file is present may come back
TsDetect(locks) ==
    IF locks = {} THEN {"none"} ELSE {ManagerOf(f) : f \in locks}

\* the command line as typed and what it led to: the --internal option, the
\* package names given, whether the selection of internal packages was shown
Cli(flag, given, prompted) == [flag |-> flag, given |-> given, prompted |-> prompted]

Invocation(impl, cmd, cli, locks, pm, internal, workspace, packages, selected, dev, clean, frozen) ==
    [impl |-> impl, cmd |-> cmd, cli |-> cli, locks |-> locks, pm |-> pm,
     internal |-> internal, workspace |-> workspace, packages |-> packages,
     selected |-> selected, dev |-> dev, clean |-> clean, frozen |-> frozen]

\* no invocation yet
NoInv == Invocation("none", "install", Cli(FALSE, <<>>, FALSE), {}, "npm", FALSE, NoWorkspaceOption, <<>>,
                    <<>>, FALSE, FALSE, FALSE)

-----------------------------------------------------------------------------
(* index.js: add, remove, install *)

\* the catch of executeInWorkspace around execSync: what follows a subprocess
\* that ended with `outcome`
JsExecResult(outcome) ==
    CASE outcome = "ok"     -> "next"
      [] outcome = "signal" -> "handleExit"
      [] OTHER              -> "throw"

\* a spawn that returns at once (child_process.spawn / exec)
SpawnIsAsync == FALSE

\* execSync / spawnSync return only when the subprocess has ended
SpawnIsBlocking == TRUE

\* a selection that is shown only under --internal
JsInternalMode_FlagOnly(cmd, internalFlag, packages) ==
    cmd # "install" /\ internalFlag

\* `if (options.internal || !packages?.length)` of add and remove
JsInternalMode(cmd, internalFlag, packages) ==
    cmd # "install" /\ (internalFlag \/ packages = <<>>)

\* the action of add / remove / install up to the workspace selection
JsBegin(cmd, locks, internalFlag, packages, chosen, sel) ==
    /\ UNCHANGED <<resVars, pkgVars>>
    /\ pc = "start"
    /\ cmd = "install" => packages = <<>> /\ ~internalFlag
    /\ LET packageManager == JsDetectPackageManager(locks)
           internalMode == JsInternalMode(cmd, internalFlag, packages)
           ips == JsFindInternalPackages
           pk == IF internalMode THEN Map(Pick(ips, chosen), JsInternalChoice)
                 ELSE packages
           warnings == IF internalMode THEN FindInternalPackagesWarnings ELSE <<>>
           cli == Cli(internalFlag, packages,
                      internalMode /\ rootCfg.found /\ ips # <<>>)
           I(selected) == Invocation("js", cmd, cli, locks, packageManager, internalMode,
                                     NoWorkspaceOption, pk, selected, FALSE,
                                     FALSE, FALSE)
       IN /\ chosen \subseteq 1..Len(ips)
          /\ ~internalMode => chosen = {}
          /\ IF ~rootCfg.found
             THEN \* findWorkspaces throws
                  /\ sel = {} /\ chosen = {}
                  /\ inv' = I(<<>>)
                  /\ Say(<<Err("No package.json found")>>)
                  /\ Exit(1, "error")
             ELSE IF internalMode /\ ips = <<>>
             THEN \* 'No internal packages found in the workspace'
                  /\ sel = {}
                  /\ inv' = I(<<>>)
                  /\ Say(warnings \o <<Err("No internal packages found")>>)
                  /\ Exit(1, "error")
             ELSE IF cmd # "install" /\ pk = <<>>
             THEN \* 'No packages selected'
                  /\ sel = {}
                  /\ inv' = I(<<>>)
                  /\ Say(warnings \o <<Message("log", "No packages selected", <<>>)>>)
                  /\ Exit(0, "return")
             ELSE /\ sel # {}
                  /\ inv' = I(Pick(AllWs, sel))
                  /\ Say(warnings)
                  /\ pc' = "loop"
                  /\ UNCHANGED <<exitCode, exitVia>>
    /\ UNCHANGED <<manifests, depCall, idx, running, cmdlog, outcomes,
                   produced, interrupt>>

\* executeInWorkspace for the next selected workspace, up to the start of its
\* subprocess (internal mode: the whole call)
JsExecute ==
    /\ UNCHANGED <<resVars, pkgVars>>
    /\ pc = "loop"
    /\ inv.impl = "js"
    /\ idx < Len(inv.selected)
    /\ LET w == inv.selected[idx + 1]
           m == manifests[w]
       IN IF ~Parses(m)
          THEN \* JSON.parse throws, the action's catch prints the message
               /\ Say(<<Message("error", "package.json does not parse", w)>>)
               /\ Exit(1, "error")
               /\ UNCHANGED <<manifests, idx, running, cmdlog, outcomes, produced>>
          ELSE IF inv.internal
          THEN LET r == IF inv.cmd = "add"
                        THEN AddDependencies(m, inv.packages, inv.pm)
                        ELSE RemoveDependencies(m, inv.packages)
               IN /\ manifests' = [manifests EXCEPT ![w] = r.manifest]
                  /\ produced' = IF inv.cmd = "add" /\ ~r.threw
                                 THEN produced \cup
                                      {[pm |-> inv.pm, impl |-> "js",
                                        token |-> r.manifest.deps[k]] :
                                       k \in {StripWorkspaceSuffix(inv.packages[i]) :
                                              i \in 1..Len(inv.packages)}}
                                 ELSE produced
                  /\ IF r.threw
                     THEN /\ Say(<<Message("error",
                                           "Failed to modify package.json", w),
                                   Err("package.json does not parse")>>)
                          /\ Exit(1, "error") /\ UNCHANGED idx
                     ELSE /\ Say(<<>>)
                          /\ idx' = idx + 1 /\ UNCHANGED <<pc, exitCode, exitVia>>
                  /\ UNCHANGED <<running, cmdlog, outcomes>>
          ELSE LET line == JsCommandLine(inv.pm, inv.cmd, inv.packages, m.name)
               IN IF line = <<>>
                  THEN /\ Say(<<Err("Unknown command")>>)
                       /\ Exit(1, "error")
                       /\ UNCHANGED <<manifests, idx, running, cmdlog, outcomes,
                                      produced>>
                  ELSE /\ cmdlog' = Append(cmdlog,
                              [ws |-> w, line |-> line, kind |-> "workspace"])
                       /\ outcomes' = Append(outcomes, "running")
                       /\ running' = running \cup {Len(cmdlog) + 1}
                       /\ pc' = IF SpawnIsBlocking THEN "child" ELSE "loop"
                       /\ idx' = IF SpawnIsBlocking THEN idx ELSE idx + 1
                       /\ Say(<<>>)
                       /\ UNCHANGED <<manifests, exitCode, exitVia, produced>>
    /\ UNCHANGED <<depCall, inv, interrupt>>

\* the subprocess of a workspace ends; execSync returns or throws
JsChildExit(outcome) ==
    /\ UNCHANGED <<resVars, pkgVars>>
    /\ pc \in {"child", "loop"}
    /\ inv.impl = "js"
    /\ running # {}
    /\ \E c \in running :
          /\ cmdlog[c].kind = "workspace"
          /\ running' = running \ {c}
          /\ outcomes' = [outcomes EXCEPT ![c] = outcome]
          /\ CASE JsExecResult(outcome) = "next" -> Say(<<>>)
               [] JsExecResult(outcome) = "handleExit" ->
                    Say(<<Message("log", "Exiting gracefully", <<>>)>>)
               [] OTHER ->
                    Say(<<Message("error", "Failed in workspace", cmdlog[c].ws),
                          Err("Command failed")>>)
    /\ interrupt' = OnSignal(outcome)
    /\ CASE JsExecResult(outcome) = "next" ->
              /\ pc' = "loop"
              /\ idx' = IF SpawnIsBlocking THEN idx + 1 ELSE idx
              /\ UNCHANGED <<exitCode, exitVia>>
         [] JsExecResult(outcome) = "handleExit" ->
              Exit(0, "handleExit") /\ UNCHANGED idx
         [] OTHER ->
              Exit(1, "error") /\ UNCHANGED idx
    /\ UNCHANGED <<manifests, depCall, inv, cmdlog, produced>>

\* an action that runs the install whatever the mode is
JsRunsTrailingInstall_Always(i) == TRUE

\* `if (internalMode)` after the loop of add and remove
JsRunsTrailingInstall(i) == i.internal

\* after the loop: the trailing install of internal mode, or the end
JsFinish ==
    /\ UNCHANGED <<resVars, pkgVars>>
    /\ pc = "loop"
    /\ inv.impl = "js"
    /\ idx = Len(inv.selected)
    /\ running = {}
    /\ IF JsRunsTrailingInstall(inv)
       THEN /\ cmdlog' = Append(cmdlog,
                   [ws |-> <<>>, line |-> <<Str(inv.pm), Str("install")>>,
                    kind |-> "trailing"])
            /\ outcomes' = Append(outcomes, "running")
            /\ running' = {Len(cmdlog) + 1}
            /\ pc' = "install"
            /\ UNCHANGED <<exitCode, exitVia>>
       ELSE /\ Exit(0, "return")
            /\ UNCHANGED <<cmdlog, outcomes, running>>
    /\ UNCHANGED <<manifests, depCall, inv, idx, produced, interrupt, reported>>

\* the trailing install ends; a throw of execSync reaches the action's catch
JsInstallExit(outcome) ==
    /\ UNCHANGED <<resVars, pkgVars>>
    /\ pc = "install"
    /\ inv.impl = "js"
    /\ running' = {}
    /\ outcomes' = [outcomes EXCEPT ![Len(outcomes)] = outcome]
    /\ interrupt' = OnSignal(outcome)
    /\ IF outcome = "ok"
       THEN Exit(0, "return") /\ Say(<<>>)
       ELSE Exit(1, "error") /\ Say(<<Err("Command failed")>>)
    /\ UNCHANGED <<manifests, depCall, inv, idx, cmdlog, produced>>


-----------------------------------------------------------------------------
(* src/index.ts: add, remove, install *)

\* a loop body that never looks at result.status
TsSpawnResult_IgnoreStatus(outcome) == "next"

\* the checks after spawnSync: result.error, then result.status !== 0
TsSpawnResult(outcome) ==
    IF outcome = "ok" THEN "next" ELSE "throw"

\* a src/index.ts that never looks for the root package.json
TsBeginError_NoRootCheck(cmd, pm, internalFlag, wsOpt, packages, named, ips, resolved) ==
    LET prompt == cmd # "install" /\ internalFlag /\ packages = <<>>
    IN CASE prompt /\ ips = <<>> -> "No internal packages found"
         [] cmd # "install" /\ named = <<>> -> "Please specify packages"
         [] pm = "none" -> "Could not detect package manager"
         [] wsOpt # NoWorkspaceOption /\ ~HasPackageJson(wsOpt) ->
                "Invalid workspace path"
         [] wsOpt = NoWorkspaceOption /\ \E w \in WsSet : ~Parses(manifests[w]) ->
                "package.json does not parse"
         [] cmd # "install" /\ internalFlag /\ resolved.threw ->
                "Internal package not found"
         [] OTHER -> "none"

\* the first throw on the way from the command's action to the loop of
\* addToWorkspaces / removeFromWorkspaces / install, "none" when the loop is
\* reached
TsBeginError(cmd, pm, internalFlag, wsOpt, packages, named, ips, resolved) ==
    LET prompt == cmd # "install" /\ internalFlag /\ packages = <<>>
        internal == cmd # "install" /\ internalFlag
        choicesThrow == \E w \in WsSet : ~Parses(manifests[w])
    IN CASE prompt /\ ~rootCfg.found -> "No package.json found"
         [] prompt /\ ips = <<>> -> "No internal packages found"
         [] cmd # "install" /\ named = <<>> -> "Please specify packages"
         [] pm = "none" -> "Could not detect package manager"
         [] wsOpt # NoWorkspaceOption /\ ~HasPackageJson(wsOpt) ->
                "Invalid workspace path"
         [] wsOpt = NoWorkspaceOption /\ ~rootCfg.found -> "No package.json found"
         [] wsOpt = NoWorkspaceOption /\ choicesThrow ->
                "package.json does not parse"
         [] internal /\ ~rootCfg.found -> "No package.json found"
         [] internal /\ resolved.threw -> "Internal package not found"
         [] OTHER -> "none"

\* detect() has not been called
NotDetected == "undetected"

\* the throws of the command's action that come before addToWorkspaces /
\* removeFromWorkspaces, and so before detect(), is called
TsFailsBeforeDetect(cmd, internalFlag, packages, named, ips) ==
    LET prompt == cmd # "install" /\ internalFlag /\ packages = <<>>
    IN \/ prompt /\ (~rootCfg.found \/ ips = <<>>)
       \/ cmd # "install" /\ named = <<>>

\* the action of add / remove / install up to the start of the loop
TsBegin(cmd, locks, pm, internalFlag, dev, clean, frozen, wsOpt, packages, chosen, sel) ==
    /\ UNCHANGED <<resVars, pkgVars>>
    /\ pc = "start"
    /\ pm \in TsDetect(locks)
    /\ cmd = "install" => packages = <<>> /\ ~internalFlag
    /\ cmd # "add" => ~dev
    /\ cmd # "install" => ~clean /\ ~frozen
    /\ LET prompt == cmd # "install" /\ internalFlag /\ packages = <<>>
           ips == TsFindInternalPackages
           named == IF prompt THEN Map(Pick(ips, chosen), LAMBDA p : p.name)
                    ELSE packages
           resolved == IF cmd = "add"
                       THEN TsResolveInternalAdd(named, ips, pm)
                       ELSE TsResolveInternalRemove(named, ips)
           pk == IF cmd # "install" /\ internalFlag THEN resolved.packages
                 ELSE named
           selected == IF wsOpt # NoWorkspaceOption THEN <<wsOpt>>
                       ELSE Pick(AllWs, sel)
           error == TsBeginError(cmd, pm, internalFlag, wsOpt, packages, named,
                                 ips, resolved)
           cli == Cli(internalFlag, packages, prompt /\ rootCfg.found /\ ips # <<>>)
           \* findInternalPackages runs for the prompt and again for --internal
           warnings ==
               (IF prompt /\ rootCfg.found THEN FindInternalPackagesWarnings
                ELSE <<>>)
               \o (IF cmd # "install" /\ internalFlag
                      /\ error \in {"none", "Internal package not found"}
                   THEN FindInternalPackagesWarnings ELSE <<>>)
       IN /\ chosen \subseteq 1..Len(ips)
          /\ IF prompt /\ rootCfg.found /\ ips # <<>> THEN chosen # {}
             ELSE chosen = {}
          /\ IF error # "none"
             THEN /\ sel = {}
                  /\ inv' = Invocation("ts", cmd, cli, locks,
                         IF TsFailsBeforeDetect(cmd, internalFlag, packages,
                                                named, ips)
                         THEN NotDetected ELSE pm,
                         internalFlag, wsOpt, named, <<>>, dev, clean, frozen)
                  /\ Say(warnings \o <<Err(error)>>)
                  /\ Exit(1, "error")
                  /\ UNCHANGED produced
             ELSE /\ IF wsOpt = NoWorkspaceOption THEN sel # {} ELSE sel = {}
                  /\ inv' = Invocation("ts", cmd, cli, locks, pm, internalFlag,
                                       wsOpt, pk, selected, dev, clean, frozen)
                  /\ Say(warnings)
                  /\ pc' = "loop"
                  /\ produced' = IF cmd = "add" /\ internalFlag
                                 THEN produced \cup
                                      {[pm |-> pm, impl |-> "ts",
                                        token |-> VersionPart(pk[i])] :
                                       i \in 1..Len(pk)}
                                 ELSE produced
                  /\ UNCHANGED <<exitCode, exitVia>>
    /\ UNCHANGED <<manifests, depCall, idx, running, cmdlog, outcomes, interrupt>>

\* one turn of the loop, up to spawnSync
TsExecute ==
    /\ UNCHANGED <<resVars, pkgVars>>
    /\ pc = "loop"
    /\ inv.impl = "ts"
    /\ idx < Len(inv.selected)
    /\ cmdlog' = Append(cmdlog, [ws |-> inv.selected[idx + 1],
                                 line |-> TsCommandLine(inv),
                                 kind |-> "workspace"])
    /\ outcomes' = Append(outcomes, "running")
    /\ running' = running \cup {Len(cmdlog) + 1}
    /\ pc' = IF SpawnIsBlocking THEN "child" ELSE "loop"
    /\ idx' = IF SpawnIsBlocking THEN idx ELSE idx + 1
    /\ UNCHANGED <<manifests, depCall, inv, exitCode, exitVia, produced, interrupt,
                   reported>>

\* spawnSync returns
TsChildExit(outcome) ==
    /\ UNCHANGED <<resVars, pkgVars>>
    /\ pc \in {"child", "loop"}
    /\ inv.impl = "ts"
    /\ running # {}
    /\ \E c \in running :
          /\ running' = running \ {c}
          /\ outcomes' = [outcomes EXCEPT ![c] = outcome]
    /\ interrupt' = OnSignal(outcome)
    /\ IF TsSpawnResult(outcome) = "next"
       THEN /\ pc' = "loop"
            /\ idx' = IF SpawnIsBlocking THEN idx + 1 ELSE idx
            /\ Say(<<>>)
            /\ UNCHANGED <<exitCode, exitVia>>
       ELSE /\ Say(<<Err("Command failed")>>)
            /\ Exit(1, "error") /\ UNCHANGED idx
    /\ UNCHANGED <<manifests, depCall, inv, cmdlog, produced>>

\* the loop is over: 'Dependencies ... successfully!'
TsFinish ==
    /\ UNCHANGED <<resVars, pkgVars>>
    /\ pc = "loop"
    /\ inv.impl = "ts"
    /\ idx = Len(inv.selected)
    /\ running = {}
    /\ Exit(0, "return")
    /\ UNCHANGED <<manifests, depCall, inv, idx, running, cmdlog, outcomes,
                   produced, interrupt, reported>>

-----------------------------------------------------------------------------
(* Workspace discovery: findWorkspaces (index.js, src/index.ts) and
   findInternalPackages (src/commands/package.ts) *)

\* s.split('/'): the segments of a path
Split(s) ==
    LET F[i \in 0..Len(s)] ==
            IF i = 0 THEN <<<<>>>>
            ELSE IF s[i] = "/" THEN Append(F[i - 1], <<>>)
            ELSE [F[i - 1] EXCEPT ![Len(F[i - 1])] = Append(@, s[i])]
    IN F[Len(s)]

\* path.join(a, b)
Join(a, b) == IF a = <<>> THEN b ELSE a \o <<"/">> \o b

\* path.dirname(p)
Dirname(p) ==
    LET slashes == {i \in 1..Len(p) : p[i] = "/"}
    IN IF slashes = {} THEN <<".">>
       ELSE SubSeq(p, 1, (CHOOSE i \in slashes : \A j \in slashes : j <= i) - 1)

PackageJson == <<"package.json">>
RootDir     == <<".">>

\* the order of JavaScript's default sort on the tokens of the model: no
\* token is a prefix of another, so comparing token by token compares the
\* strings character by character
TokOrder == <<"/", "admin", "apps", "cli", "core", "node_modules", "packages",
              "tools", "ui", "web">>
TokRank(t) == CHOOSE i \in 1..Len(TokOrder) : TokOrder[i] = t

\* a < b as strings
StrLess(a, b) ==
    \E i \in 1..(Len(a) + 1) :
        /\ \A j \in 1..(i - 1) : j <= Len(b) /\ a[j] = b[j]
        /\ \/ i = Len(a) + 1 /\ Len(b) >= i
           \/ i <= Len(a) /\ i <= Len(b) /\ TokRank(a[i]) < TokRank(b[i])

\* [...new Set(list)]: the first occurrence of every element, in order
Dedupe(list) ==
    LET F[i \in 0..Len(list)] ==
            IF i = 0 THEN <<>>
            ELSE IF list[i] \in Range(F[i - 1]) THEN F[i - 1]
            ELSE Append(F[i - 1], list[i])
    IN F[Len(list)]

\* list.sort(): insertion of each element before the first greater one
RECURSIVE Insert(_, _)
Insert(sorted, x) ==
    IF sorted = <<>> THEN <<x>>
    ELSE IF StrLess(x, Head(sorted)) THEN <<x>> \o sorted
    ELSE <<Head(sorted)>> \o Insert(Tail(sorted), x)

Sort(list) ==
    LET F[i \in 0..Len(list)] ==
            IF i = 0 THEN <<>> ELSE Insert(F[i - 1], list[i])
    IN F[Len(list)]

\* one segment of a glob pattern against one segment of a path
SegMatches(pat, seg) == pat = <<"*">> \/ pat = seg

\* the pattern matches the whole relative path of a file
GlobMatches(pattern, file) ==
    LET ps == Split(pattern)
        fs == Split(file)
    IN /\ Len(ps) = Len(fs)
       /\ \A i \in 1..Len(ps) : SegMatches(ps[i], fs[i])

\* ignore: ['**/node_modules/**']
Ignored(file) ==
    LET fs == Split(file)
    IN \E i \in 1..(Len(fs) - 1) : fs[i] = <<"node_modules">>

\* glob(packageJsonPattern, {cwd: rootDir, ignore}) mapped to path.dirname:
\* the matching manifests, in the order the disk is traversed
GlobDirs(pattern, d) ==
    LET packageJsonPattern ==
            IF EndsWith(pattern, PackageJson) THEN pattern
            ELSE Join(pattern, PackageJson)
        hit == {i \in 1..Len(d) :
                   /\ GlobMatches(packageJsonPattern, Join(d[i], PackageJson))
                   /\ ~Ignored(Join(d[i], PackageJson))}
    IN Map(Pick(d, hit), LAMBDA dir : Dirname(Join(dir, PackageJson)))

\* the workspaces field of the root manifest
NoWorkspaces == [kind |-> "absent", pats |-> <<>>]
WsArray(pats) == [kind |-> "array", pats |-> pats]
WsObject(pats) == [kind |-> "object", pats |-> pats]      \* {packages: [...]}
WsObjectBare == [kind |-> "objectBare", pats |-> <<>>]    \* {} without packages

\* pnpm-workspace.yaml
NoPnpmFile == [kind |-> "absent", pats |-> <<>>]
PnpmPackages(pats) == [kind |-> "packages", pats |-> pats]
PnpmBare == [kind |-> "bare", pats |-> <<>>]              \* no packages key

\* rootPkg.workspaces read as a pattern list (lines 64-68 of index.js)
ManifestPatterns(ws) ==
    CASE ws.kind = "array"  -> ws.pats
      [] ws.kind = "object" -> ws.pats
      [] OTHER              -> <<>>

\* a findWorkspaces that consults the pnpm file only when the manifest
\* declares no pattern
WorkspacePatterns_ManifestFirst(cfg) ==
    IF ManifestPatterns(cfg.workspaces) # <<>>
    THEN ManifestPatterns(cfg.workspaces)
    ELSE IF cfg.pnpm.kind = "packages" THEN cfg.pnpm.pats ELSE <<>>

\* the patterns findWorkspaces expands: the manifest's, replaced by the pnpm
\* file's when that file has a packages key
WorkspacePatterns(cfg) ==
    IF cfg.pnpm.kind = "packages" THEN cfg.pnpm.pats
    ELSE ManifestPatterns(cfg.workspaces)

\* the matches of every pattern, one pattern after the other
RECURSIVE ExpandAll(_, _)
ExpandAll(patterns, d) ==
    IF patterns = <<>> THEN <<>>
    ELSE GlobDirs(Head(patterns), d) \o ExpandAll(Tail(patterns), d)

NoResult == [op |-> "none", threw |-> FALSE, patterns |-> <<>>, list |-> <<>>]

Result(op, threw, patterns, list) ==
    [op |-> op, threw |-> threw, patterns |-> patterns, list |-> list]

\* findWorkspaces of index.js
JsFindWorkspaces(cfg, d) ==
    IF ~cfg.found THEN Result("js", TRUE, <<>>, <<>>)
    ELSE LET workspacePatterns == WorkspacePatterns(cfg)
         IN IF Len(workspacePatterns) = 0
            THEN Result("js", FALSE, workspacePatterns, <<RootDir>>)
            ELSE Result("js", FALSE, workspacePatterns,
                        Sort(Dedupe(ExpandAll(workspacePatterns, d))))

\* findWorkspaces of src/index.ts
TsFindWorkspaces(cfg, d) ==
    IF ~cfg.found THEN Result("ts", TRUE, <<>>, <<>>)
    ELSE LET workspacePatterns == WorkspacePatterns(cfg)
         IN IF Len(workspacePatterns) = 0
            THEN Result("ts", FALSE, workspacePatterns, <<RootDir>>)
            ELSE Result("ts", FALSE, workspacePatterns,
                        ExpandAll(workspacePatterns, d))

DefaultPatterns == << <<"packages", "/", "*">>, <<"apps", "/", "*">> >>

\* the patterns of findInternalPackages (package.ts)
PkgPatterns(cfg) ==
    IF cfg.workspaces.kind = "absent" THEN DefaultPatterns
    ELSE ManifestPatterns(cfg.workspaces)

\* the directories with a package.json right below baseDir, in readdir order
MembersBelow(baseDir, d) ==
    LET hit == {i \in 1..Len(d) :
                   /\ Len(Split(d[i])) = 2
                   /\ Split(d[i])[1] = baseDir}
    IN Pick(d, hit)

RECURSIVE PkgScan(_, _)
PkgScan(patterns, d) ==
    IF patterns = <<>> THEN <<>>
    ELSE MembersBelow(Split(Head(patterns))[1], d) \o PkgScan(Tail(patterns), d)

\* findInternalPackages of package.ts: the member directories it returns
PkgFindInternalPackages(cfg, d) ==
    IF ~cfg.found THEN Result("pkg", TRUE, <<>>, <<>>)
    ELSE Result("pkg", FALSE, PkgPatterns(cfg), PkgScan(PkgPatterns(cfg), d))

\* the three discoveries as steps of the resolver specification
RunJsFindWorkspaces ==
    /\ found.op = "none"
    /\ found' = JsFindWorkspaces(rootCfg, disk)
    /\ UNCHANGED <<rootCfg, disk, depVars, batchVars, pkgVars>>

RunTsFindWorkspaces ==
    /\ found.op = "none"
    /\ found' = TsFindWorkspaces(rootCfg, disk)
    /\ UNCHANGED <<rootCfg, disk, depVars, batchVars, pkgVars>>

RunPkgFindInternalPackages ==
    /\ found.op = "none"
    /\ found' = PkgFindInternalPackages(rootCfg, disk)
    /\ UNCHANGED <<rootCfg, disk, depVars, batchVars, pkgVars>>

-----------------------------------------------------------------------------
(* The package commands: src/commands/package.js and src/commands/package.ts *)

PackageTypes == {"package", "app"}

NameFoo      == <<"foo">>
NameScopeFoo == <<"@", "scope", "/", "foo">>
NameArgs     == {<<>>, NameFoo, NameScopeFoo}          \* [name] of the command line
PackageNameAnswers == {NameFoo, <<"ui">>, NameScopeFoo}
ScopeAnswers == {<<"scope">>}
Versions     == {Str("0.0.1"), Str("1.2.0")}

\* the part [a-z0-9-~][a-z0-9-._~]* of the name pattern: one word
IsWord(s) == Len(s) = 1 /\ s[1] \notin {"@", "/"}

\* validatePackageName: /^(@word\/)?word$/
ValidPackageName(name) ==
    \/ IsWord(name)
    \/ /\ Len(name) = 4
       /\ name[1] = "@" /\ IsWord(<<name[2]>>)
       /\ name[3] = "/" /\ IsWord(<<name[4]>>)

\* initialScope of promptPackageDetails
InitialScope(name) ==
    IF name # <<>> /\ "/" \in Range(name)
    THEN LET first == Split(name)[1]
         IN IF first # <<>> /\ first[1] = "@" THEN Tail(first) ELSE first
    ELSE <<>>

\* scopeAnswers: asked only when the name argument has no "@"
PromptScope(name, useScope, scope) ==
    IF name = <<>> \/ "@" \notin Range(name)
    THEN [useScope |-> useScope, scope |-> IF useScope THEN scope ELSE <<>>]
    ELSE [useScope |-> TRUE, scope |-> InitialScope(name)]

\* fullName of the packageName question's validation
FullName(useScope, scope, packageName) ==
    IF useScope THEN <<"@">> \o scope \o <<"/">> \o packageName ELSE packageName

Details(type, useScope, scope, packageName, name, version) ==
    [type |-> type, useScope |-> useScope, scope |-> scope,
     packageName |-> packageName, name |-> name, version |-> version]

\* promptPackageDetails of package.js
JsPromptPackageDetails(name, selectedType, useScope, scope, packageName, version) ==
    LET scopeAnswers == PromptScope(name, useScope, scope)
    IN Details(selectedType, scopeAnswers.useScope, scopeAnswers.scope, packageName,
               FullName(scopeAnswers.useScope, scopeAnswers.scope, packageName),
               version)

\* promptPackageDetails of package.ts
TsPromptPackageDetails(name, selectedType, useScope, scope, packageName, version) ==
    LET scopeAnswers == PromptScope(name, useScope, scope)
    IN Details(selectedType, scopeAnswers.useScope, scopeAnswers.scope, packageName,
               IF scopeAnswers.useScope /\ scopeAnswers.scope # <<>>
               THEN FullName(TRUE, scopeAnswers.scope, packageName)
               ELSE packageName,
               version)

\* the answers the prompt accepts: the packageName question validates fullName
PromptAccepts(name, useScope, scope, packageName) ==
    LET scopeAnswers == PromptScope(name, useScope, scope)
    IN ValidPackageName(FullName(scopeAnswers.useScope, scopeAnswers.scope,
                                 packageName))

\* a file of a member directory
File(kind, name, version) == [kind |-> kind, name |-> name, version |-> version]
ManifestFile(name, version) == File("manifest", name, version)
Generated(kind) == File(kind, <<>>, <<>>)

AbsentDir == [exists |-> FALSE, files |-> <<>>]
Dir(files) == [exists |-> TRUE, files |-> files]

BaseDirs == {<<"packages">>, <<"apps">>}
DirNames == {NameFoo, <<"ui">>, NameScopeFoo}
PkgDirs  == {Join(b, n) : b \in BaseDirs, n \in DirNames}

\* p is d or a directory above d
IsPathPrefix(p, d) ==
    /\ Len(p) <= Len(d)
    /\ SubSeq(d, 1, Len(p)) = p
    /\ Len(p) = Len(d) \/ d[Len(p) + 1] = "/"

\* fs.existsSync(p)
ExistsSync(t, p) == \E d \in DOMAIN t : t[d].exists /\ IsPathPrefix(p, d)

\* member directories already on disk before a command runs
OldManifest == ManifestFile(<<"@", "old", "/", "lib">>, Str("3.0.0"))
ExistingDirs ==
    {Dir([f \in {"package.json", "README.md"} |->
             IF f = "package.json" THEN OldManifest ELSE Generated("hand-written")]),
     Dir([f \in {"package.json"} |-> Generated("malformed")]),
     Dir([f \in {"notes.txt"} |-> Generated("hand-written")])}

TreeInits ==
    {t \in [PkgDirs -> ExistingDirs \cup {AbsentDir}] :
        /\ \A d \in PkgDirs : Len(Split(d)) > 2 => ~t[d].exists
        /\ t[<<"apps", "/", "ui">>] = AbsentDir
        /\ t[<<"apps", "/", "foo">>].exists
           => "README.md" \in DOMAIN t[<<"apps", "/", "foo">>].files
        /\ t[<<"packages", "/", "ui">>].exists
           => "package.json" \in DOMAIN t[<<"packages", "/", "ui">>].files}

\* turbo.json of the root
TurboStates == {"absent", "outputs", "outputsWithDist"}

\* lines 184-194 of package.js: dist/** joins tasks.build.outputs
JsUpdateTurbo(tb) == IF tb = "outputs" THEN "outputsWithDist" ELSE tb

NoCreate ==
    [op |-> "none", type |-> "package", details |-> Details("package", FALSE, <<>>, <<>>, <<>>, <<>>),
     dir |-> <<>>, existed |-> FALSE, exit |-> 0, build |-> "none",
     before |-> <<>>]

Created(op, type, details, dir, existed, exit, build, before) ==
    [op |-> op, type |-> type, details |-> details, dir |-> dir,
     existed |-> existed, exit |-> exit, build |-> build, before |-> before]

NoList == [op |-> "none", exit |-> 0, lines |-> <<>>]
Listed(op, exit, lines) == [op |-> op, exit |-> exit, lines |-> lines]

\* a package delete: the name asked for, the directory found for it, whether
\* the confirmation was asked and how it was answered, the exit status and
\* the tree before the command
NoDelete ==
    [op |-> "none", name |-> <<>>, path |-> <<>>, asked |-> FALSE,
     confirm |-> FALSE, exit |-> 0, before |-> <<>>]

Deleted(op, name, path, asked, confirm, exit, before) ==
    [op |-> op, name |-> name, path |-> path, asked |-> asked,
     confirm |-> confirm, exit |-> exit, before |-> before]

\* the template question of a package create: the display name shown for the
\* choice taken, the value the choice carries, whether getTemplate was called
\* with it, whether that call threw, and the name of the template returned
NoTemplateCall ==
    [asked |-> FALSE, shown |-> <<>>, value |-> <<>>, looked |-> FALSE,
     threw |-> FALSE, got |-> <<>>]

TemplateCall(shown, value, looked, threw, got) ==
    [asked |-> TRUE, shown |-> shown, value |-> value, looked |-> looked,
     threw |-> threw, got |-> got]

NoPkgCall ==
    [create |-> NoCreate, list |-> NoList, del |-> NoDelete, tpl |-> NoTemplateCall]

\* the files createPackage of package.js writes
JsPackageFiles(details) ==
    [f \in {"package.json", "tsconfig.json", "src/index.ts", "README.md"} |->
        IF f = "package.json" THEN ManifestFile(details.name, details.version)
        ELSE Generated("package.js")]

\* the files createPackage of package.ts writes
TsPackageFiles(details) ==
    [f \in {"package.json", "tsconfig.json", ".eslintrc.js", "README.md",
            "src/index.ts", "src/index.test.ts"} |->
        IF f = "package.json" THEN ManifestFile(details.name, details.version)
        ELSE Generated("package.ts")]

\* fs.writeFileSync of every file of a new package: a file of that name is
\* overwritten, the other files of the directory stay
WriteFiles(dir, files) ==
    IF dir.exists
    THEN Dir([f \in DOMAIN dir.files \cup DOMAIN files |->
                 IF f \in DOMAIN files THEN files[f] ELSE dir.files[f]])
    ELSE Dir(files)

\* packageDirName of package.js
JsPackageDirName(details) ==
    IF "/" \in Range(details.name) THEN Split(details.name)[2] ELSE details.name

\* packageName of package.ts
TsPackageDirName(details) ==
    IF details.packageName # <<>> THEN details.packageName
    ELSE LET parts == Split(details.name) IN parts[Len(parts)]

BaseDirOf(type) == IF type = "app" THEN <<"apps">> ELSE <<"packages">>

\* createPackage of package.js that skips the existence check
JsCreateOutcome_NoExistsCheck(t, type, details, build) ==
    LET packagePath == Join(BaseDirOf(details.type), JsPackageDirName(details))
    IN [tree |-> [t EXCEPT ![packagePath] = WriteFiles(@, JsPackageFiles(details))],
        call |-> Created("js", type, details, packagePath,
                         ExistsSync(t, packagePath), 0, build, t)]

\* createPackage of package.js from the prompt's answers on
JsCreateOutcome(t, type, details, build) ==
    LET baseDir == BaseDirOf(details.type)
        packageDirName == JsPackageDirName(details)
        packagePath == Join(baseDir, packageDirName)
    IN IF ExistsSync(t, packagePath)
       THEN [tree |-> t,
             call |-> Created("js", type, details, packagePath, TRUE, 1, "none", t)]
       ELSE [tree |-> [t EXCEPT ![packagePath] = WriteFiles(@, JsPackageFiles(details))],
             call |-> Created("js", type, details, packagePath, FALSE, 0, build, t)]

BuildAnswers == {"declined", "built", "buildFailed"}

\* kabob package create [name] -t type, package.js
JsCreatePackage(name, type, selectedType, useScope, scope, packageName, version, build) ==
    /\ UNCHANGED <<depVars, batchVars, resVars>>
    /\ IF ~rootCfg.found
       THEN /\ pkgCall' = [pkgCall EXCEPT !.create =
                              Created("js", type, NoCreate.details, <<>>, FALSE, 1,
                                      "none", tree)]
            /\ UNCHANGED <<tree, turbo>>
       ELSE /\ turbo' = JsUpdateTurbo(turbo)
            /\ PromptAccepts(name, useScope, scope, packageName)
            /\ LET details == JsPromptPackageDetails(name, selectedType, useScope,
                                                     scope, packageName, version)
                   out == JsCreateOutcome(tree, type, details, build)
               IN /\ tree' = out.tree
                  /\ pkgCall' = [pkgCall EXCEPT !.create = out.call]

PmDetected == PackageManagers \cup {"none"}

\* createPackage of package.ts from the prompt's answers on
TsCreateOutcome(t, type, details, pm) ==
    IF pm = "none"
    THEN [tree |-> t,
          call |-> Created("ts", type, details, <<>>, FALSE, 1, "none", t)]
    ELSE LET baseDir == BaseDirOf(type)
             packageName == TsPackageDirName(details)
             packageDir == Join(baseDir, packageName)
         IN IF ExistsSync(t, packageDir)
            THEN [tree |-> t,
                  call |-> Created("ts", type, details, packageDir, TRUE, 1, "none", t)]
            ELSE [tree |-> [t EXCEPT ![packageDir] =
                                         WriteFiles(@, TsPackageFiles(details))],
                  call |-> Created("ts", type, details, packageDir, FALSE, 0, "none", t)]

\* kabob package create [name] -t type, package.ts
TsCreatePackage(name, type, selectedType, useScope, scope, packageName, version, pm) ==
    /\ UNCHANGED <<depVars, batchVars, resVars, turbo>>
    /\ IF ~rootCfg.found
       THEN /\ pkgCall' = [pkgCall EXCEPT !.create =
                              Created("ts", type, NoCreate.details, <<>>, FALSE, 1,
                                      "none", tree)]
            /\ UNCHANGED tree
       ELSE /\ PromptAccepts(name, useScope, scope, packageName)
            /\ LET details == TsPromptPackageDetails(name, selectedType, useScope,
                                                     scope, packageName, version)
                   out == TsCreateOutcome(tree, type, details, pm)
               IN /\ tree' = out.tree
                  /\ pkgCall' = [pkgCall EXCEPT !.create = out.call]

\* the templates of src/templates/package-templates.ts, in the order of the
\* object's keys
Templates ==
    <<[key |-> Str("basic-jit"),
       name |-> <<"Basic TypeScript Package ", "(", "JIT", ")">>],
      [key |-> Str("basic-aot"),
       name |-> <<"Basic TypeScript Package ", "(", "AOT", ")">>],
      [key |-> Str("react-jit"),
       name |-> <<"React Component Library ", "(", "JIT", ")">>],
      [key |-> Str("react-aot"),
       name |-> <<"React Component Library ", "(", "AOT", ")">>],
      [key |-> Str("node-api-jit"),
       name |-> <<"Node.js API Package ", "(", "JIT", ")">>],
      [key |-> Str("node-api-aot"),
       name |-> <<"Node.js API Package ", "(", "AOT", ")">>]>>

\* getTemplate: templates[templateName], 'Template not found' without one
GetTemplate(templateName) ==
    LET hits == {i \in 1..Len(Templates) : Templates[i].key = templateName}
    IN IF hits = {}
       THEN [threw |-> TRUE, template |-> [key |-> <<>>, name |-> <<>>]]
       ELSE [threw |-> FALSE, template |-> Templates[CHOOSE i \in hits : TRUE]]

\* listTemplates: `${template.name} (${key})` for every entry
ListTemplates ==
    [i \in 1..Len(Templates) |->
        [name |-> Templates[i].name \o <<" ", "(">> \o Templates[i].key \o <<")">>]]

\* s.match(/\((.*?)\)/)?.[1] || '': the text between the first "(" that has
\* a ")" after it and the first ")" after it
FirstGroup(s) ==
    LET opens == {i \in 1..Len(s) :
                     s[i] = "(" /\ \E j \in (i + 1)..Len(s) : s[j] = ")"}
    IN IF opens = {} THEN <<>>
       ELSE LET i == CHOOSE a \in opens : \A b \in opens : a <= b
                j == CHOOSE a \in (i + 1)..Len(s) :
                        /\ s[a] = ")"
                        /\ \A b \in (i + 1)..Len(s) : s[b] = ")" => a <= b
            IN SubSeq(s, i + 1, j - 1)

\* the value of the choice the template question builds for t
ChoiceValue(t) == FirstGroup(t.name)

\* the files createPackage of part_001 writes
TemplatePackageFiles(details) ==
    [f \in {"package.json", "tsconfig.json", "README.md"} |->
        IF f = "package.json" THEN ManifestFile(details.name, details.version)
        ELSE Generated("template")]

\* createPackage of part_001 from the prompt's answers on
TemplateCreateOutcome(t, type, details, pm, choice) ==
    LET shown == ListTemplates[choice].name
        selectedTemplate == ChoiceValue(ListTemplates[choice])
        failed(dir, existed) == Created("tpl", type, details, dir, existed, 1, "none", t)
    IN IF pm = "none"
       THEN [tree |-> t, call |-> failed(<<>>, FALSE),
             tpl |-> TemplateCall(shown, selectedTemplate, FALSE, FALSE, <<>>)]
       ELSE LET r == GetTemplate(selectedTemplate)
                packageDir == Join(BaseDirOf(type), TsPackageDirName(details))
                asked == TemplateCall(shown, selectedTemplate, TRUE, r.threw,
                                      r.template.name)
            IN IF r.threw
               THEN [tree |-> t, call |-> failed(<<>>, FALSE), tpl |-> asked]
               ELSE IF ExistsSync(t, packageDir)
               THEN [tree |-> t, call |-> failed(packageDir, TRUE), tpl |-> asked]
               ELSE [tree |-> [t EXCEPT ![packageDir] =
                                  WriteFiles(@, TemplatePackageFiles(details))],
                     call |-> Created("tpl", type, details, packageDir, FALSE, 0,
                                      "none", t),
                     tpl |-> asked]

\* kabob package create [name] -t type, part_001
TemplateCreatePackage(name, type, selectedType, choice, useScope, scope, packageName, version, pm) ==
    /\ UNCHANGED <<depVars, batchVars, resVars, turbo>>
    /\ IF ~rootCfg.found
       THEN /\ pkgCall' = [pkgCall EXCEPT !.create =
                              Created("tpl", type, NoCreate.details, <<>>, FALSE, 1,
                                      "none", tree)]
            /\ UNCHANGED tree
       ELSE /\ PromptAccepts(name, useScope, scope, packageName)
            /\ LET details == TsPromptPackageDetails(name, selectedType, useScope,
                                                     scope, packageName, version)
                   out == TemplateCreateOutcome(tree, type, details, pm, choice)
               IN /\ tree' = out.tree
                  /\ pkgCall' = [pkgCall EXCEPT !.create = out.call,
                                                !.tpl = out.tpl]

\* one line of a listing: the label printed, the version printed after "v"
\* and the path printed in brackets (<<>> where the line has none)
Line(name, version, path) == [name |-> name, version |-> version, path |-> path]

HasManifest(t, p) ==
    p \in DOMAIN t /\ t[p].exists /\ "package.json" \in DOMAIN t[p].files

\* the orders in which readdir may return the directories on disk
ReaddirOrders(t) ==
    LET S == {d \in DOMAIN t : t[d].exists}
    IN {f \in [1..Cardinality(S) -> S] :
           \A i, j \in 1..Cardinality(S) : f[i] = f[j] => i = j}

\* fs.readdirSync(basePath) filtered to directories: the names right below
ChildrenOf(baseDir, order) ==
    LET below == {i \in 1..Len(order) : Split(order[i])[1] = baseDir}
    IN Dedupe(Map(Pick(order, below), LAMBDA d : Split(d)[2]))

\* JSON.parse of the package.json of p succeeds
ParsesAt(t, p) == HasManifest(t, p) /\ t[p].files["package.json"].kind = "manifest"

\* lines 425-436 of package.js: the line printed for one directory
JsListLine(t, baseDir, pkg) ==
    IF HasManifest(t, Join(baseDir, pkg))
    THEN Line(pkg, t[Join(baseDir, pkg)].files["package.json"].version, <<>>)
    ELSE Line(pkg, <<>>, <<>>)

\* the directories listPackages of package.js visits, in order
RECURSIVE JsListVisits(_, _)
JsListVisits(workspaces, order) ==
    IF workspaces = <<>> THEN <<>>
    ELSE LET baseDir == Split(Head(workspaces))[1]
         IN Map(ChildrenOf(baseDir, order), LAMBDA pkg : <<baseDir, pkg>>)
            \o JsListVisits(Tail(workspaces), order)

\* the lines printed until a package.json fails to parse
JsListLines(t, workspaces, order) ==
    LET visits == JsListVisits(workspaces, order)
        throws(v) == HasManifest(t, Join(v[1], v[2])) /\ ~ParsesAt(t, Join(v[1], v[2]))
        F[i \in 0..Len(visits)] ==
            IF i = 0 THEN [threw |-> FALSE, lines |-> <<>>]
            ELSE IF F[i - 1].threw THEN F[i - 1]
            ELSE IF throws(visits[i]) THEN [F[i - 1] EXCEPT !.threw = TRUE]
            ELSE [F[i - 1] EXCEPT
                     !.lines = Append(@, JsListLine(t, visits[i][1], visits[i][2]))]
    IN F[Len(visits)]

\* listPackages of package.js
JsListOutcome(cfg, t, order) ==
    IF ~cfg.found THEN Listed("js", 1, <<>>)
    ELSE IF cfg.workspaces.kind \in {"object", "objectBare"}
         THEN Listed("js", 1, <<>>)                \* workspaces.forEach throws
         ELSE LET out == JsListLines(t, IF cfg.workspaces.kind = "absent"
                                        THEN DefaultPatterns ELSE cfg.workspaces.pats,
                                     order)
              IN Listed("js", IF out.threw THEN 1 ELSE 0, out.lines)

\* ws.path.includes('/apps/')
IsAppPath(p) == \E i \in 1..(Len(p) - 1) : p[i] = "apps" /\ p[i + 1] = "/"

\* lines 431 and 441 of package.ts: the line printed for one workspace
TsListLine(t, p) == Line(t[p].files["package.json"].name, <<>>, p)

\* listPackages of package.ts that prints the directory name for the package
TsListOutcome_DirName(cfg, t, order) ==
    LET withManifest == {i \in 1..Len(order) : ParsesAt(t, order[i])}
        workspaces == PkgFindInternalPackages(cfg, Pick(order, withManifest))
    IN IF workspaces.threw THEN Listed("ts", 1, <<>>)
       ELSE Listed("ts", 0,
                   Map(workspaces.list, LAMBDA p : Line(Split(p)[2], <<>>, p)))

\* listPackages of package.ts: the apps, then the packages
TsListOutcome(cfg, t, order) ==
    LET withManifest == {i \in 1..Len(order) : ParsesAt(t, order[i])}
        workspaces == PkgFindInternalPackages(cfg, Pick(order, withManifest))
        apps == {i \in 1..Len(workspaces.list) : IsAppPath(workspaces.list[i])}
        pkgs == (1..Len(workspaces.list)) \ apps
    IN IF workspaces.threw THEN Listed("ts", 1, <<>>)
       ELSE Listed("ts", 0,
                   Map(Pick(workspaces.list, apps), LAMBDA p : TsListLine(t, p))
                   \o Map(Pick(workspaces.list, pkgs), LAMBDA p : TsListLine(t, p)))

\* kabob package list, package.js
JsListPackages(order) ==
    /\ pkgCall' = [pkgCall EXCEPT !.list = JsListOutcome(rootCfg, tree, order)]
    /\ UNCHANGED <<depVars, batchVars, resVars, tree, turbo>>

\* kabob package list, package.ts
TsListPackages(order) ==
    /\ pkgCall' = [pkgCall EXCEPT !.list = TsListOutcome(rootCfg, tree, order)]
    /\ UNCHANGED <<depVars, batchVars, resVars, tree, turbo>>

\* fs.rmSync(p, { recursive: true, force: true })
RmSync(t, p) == [d \in DOMAIN t |-> IF IsPathPrefix(p, d) THEN AbsentDir ELSE t[d]]

\* the names given to package delete
DeleteNames == {NameFoo, <<"ui">>, NameScopeFoo, OldManifest.name}

\* the first base directory of the patterns under which `name` exists, <<>>
\* when there is none (lines 380-388 of package.js)
RECURSIVE JsDeleteFind(_, _, _)
JsDeleteFind(t, workspaces, name) ==
    IF workspaces = <<>> THEN <<>>
    ELSE LET testPath == Join(Split(Head(workspaces))[1], name)
         IN IF ExistsSync(t, testPath) THEN testPath
            ELSE JsDeleteFind(t, Tail(workspaces), name)

\* deletePackage of package.js that removes the directory whatever the
\* answer to the confirmation is
JsDeleteOutcome_IgnoreConfirm(cfg, t, name, confirm) ==
    LET packagePath == JsDeleteFind(t, DefaultPatterns, name)
    IN IF packagePath = <<>>
       THEN [tree |-> t, call |-> Deleted("js", name, <<>>, FALSE, confirm, 1, t)]
       ELSE [tree |-> RmSync(t, packagePath),
             call |-> Deleted("js", name, packagePath, TRUE, confirm, 0, t)]

\* deletePackage of package.js
JsDeleteOutcome(cfg, t, name, confirm) ==
    IF \/ ~cfg.found
       \/ cfg.workspaces.kind \in {"object", "objectBare"}  \* not iterable
    THEN [tree |-> t, call |-> Deleted("js", name, <<>>, FALSE, confirm, 1, t)]
    ELSE LET workspaces == IF cfg.workspaces.kind = "absent" THEN DefaultPatterns
                           ELSE cfg.workspaces.pats
             packagePath == JsDeleteFind(t, workspaces, name)
         IN IF packagePath = <<>>
            THEN [tree |-> t,
                  call |-> Deleted("js", name, <<>>, FALSE, confirm, 1, t)]
            ELSE [tree |-> IF confirm THEN RmSync(t, packagePath) ELSE t,
                  call |-> Deleted("js", name, packagePath, TRUE, confirm, 0, t)]

\* deletePackage of package.ts: the member is found by its manifest's name
TsDeleteOutcome(cfg, t, order, name, confirm) ==
    LET withManifest == {i \in 1..Len(order) : ParsesAt(t, order[i])}
        workspaces == PkgFindInternalPackages(cfg, Pick(order, withManifest))
        hits == {i \in 1..Len(workspaces.list) :
                    t[workspaces.list[i]].files["package.json"].name = name}
    IN IF workspaces.threw \/ hits = {}
       THEN [tree |-> t, call |-> Deleted("ts", name, <<>>, FALSE, confirm, 1, t)]
       ELSE LET path == workspaces.list[CHOOSE i \in hits : \A j \in hits : i <= j]
            IN [tree |-> IF confirm THEN RmSync(t, path) ELSE t,
                call |-> Deleted("ts", name, path, TRUE, confirm, 0, t)]

\* kabob package delete <name>, package.js
JsDeletePackage(name, confirm) ==
    /\ UNCHANGED <<depVars, batchVars, resVars, turbo>>
    /\ LET out == JsDeleteOutcome(rootCfg, tree, name, confirm)
       IN /\ ~out.call.asked => ~confirm
          /\ tree' = out.tree
          /\ pkgCall' = [pkgCall EXCEPT !.del = out.call]

\* kabob package delete <name>, package.ts
TsDeletePackage(order, name, confirm) ==
    /\ UNCHANGED <<depVars, batchVars, resVars, turbo>>
    /\ LET out == TsDeleteOutcome(rootCfg, tree, order, name, confirm)
       IN /\ ~out.call.asked => ~confirm
          /\ tree' = out.tree
          /\ pkgCall' = [pkgCall EXCEPT !.del = out.call]

-----------------------------------------------------------------------------
(* Specifications *)

BatchInit ==
    /\ pc = "start"
    /\ inv = NoInv
    /\ idx = 0
    /\ running = {}
    /\ cmdlog = <<>>
    /\ outcomes = <<>>
    /\ exitCode = 0
    /\ exitVia = "none"
    /\ produced = {}
    /\ interrupt = NoInterrupt
    /\ reported = <<>>

\* no discovery and no package command in progress
ResIdle ==
    /\ rootCfg = [found |-> TRUE, workspaces |-> NoWorkspaces, pnpm |-> NoPnpmFile]
    /\ disk = <<>>
    /\ found = NoResult

PkgIdle ==
    /\ tree = [d \in PkgDirs |-> AbsentDir]
    /\ turbo = "absent"
    /\ pkgCall = NoPkgCall

\* the root of a batch: its manifest names the members of the model, or no
\* package.json exists in the current directory or above it
BatchRootCfgs ==
    {[found |-> TRUE,
      workspaces |-> WsArray(<< <<"apps", "/", "*">>, <<"packages", "/", "*">> >>),
      pnpm |-> NoPnpmFile],
     [found |-> FALSE, workspaces |-> NoWorkspaces, pnpm |-> NoPnpmFile]}

Init ==
    /\ manifests \in ManifestInits
    /\ depCall = NoCall
    /\ BatchInit
    /\ rootCfg \in BatchRootCfgs
    /\ disk = <<>>
    /\ found = NoResult
    /\ PkgIdle

\* the values an option can take when only `given` commands accept it
Flag(cmd, given) == IF cmd \in given THEN BOOLEAN ELSE {FALSE}

\* the sets of choices a checkbox prompt can return when it is shown
Checked(shown) == IF shown THEN SUBSET (1..Len(AllWs)) ELSE {{}}

\* an invocation of index.js, over the inputs of the model
JsStart ==
    /\ pc = "start"
    /\ \E cmd \in Commands, locks \in LockSets :
       \E internalFlag \in Flag(cmd, {"add", "remove"}),
          packages \in (IF cmd = "install" THEN {<<>>} ELSE CliPackages) :
       \E chosen \in Checked(internalFlag \/ packages = <<>>),
          sel \in SUBSET (1..Len(AllWs)) :
          JsBegin(cmd, locks, internalFlag, packages, chosen, sel)

\* executeInWorkspace reached with an action outside its table, over the
\* selected workspaces (no command of index.js passes one: the function is
\* called with it directly)
JsStartOutsideTable ==
    /\ pc = "start"
    /\ \E locks \in LockSets, packages \in CliPackages \ {<<>>},
          sel \in SUBSET (1..Len(AllWs)) :
          JsBegin(OutsideTable, locks, FALSE, packages, {}, sel)

\* an invocation of src/index.ts, over the inputs of the model
TsStart ==
    /\ pc = "start"
    /\ \E cmd \in Commands, locks \in LockSets, wsOpt \in WorkspaceOptions :
       \E pm \in TsDetect(locks),
          internalFlag \in Flag(cmd, {"add", "remove"}),
          dev \in Flag(cmd, {"add"}),
          clean \in Flag(cmd, {"install"}), frozen \in Flag(cmd, {"install"}),
          packages \in (IF cmd = "install" THEN {<<>>} ELSE CliPackages) :
       \E chosen \in Checked(internalFlag /\ packages = <<>>),
          sel \in Checked(wsOpt = NoWorkspaceOption) :
          TsBegin(cmd, locks, pm, internalFlag, dev, clean, frozen, wsOpt,
                  packages, chosen, sel)

Next ==
    \/ JsStart
    \/ JsStartOutsideTable
    \/ JsExecute
    \/ \E o \in Outcomes : JsChildExit(o)
    \/ JsFinish
    \/ \E o \in Outcomes : JsInstallExit(o)
    \/ TsStart
    \/ TsExecute
    \/ \E o \in Outcomes : TsChildExit(o)
    \/ TsFinish

Spec == Init /\ [][Next]_vars

\* the functions of package-json.js called directly
\* the project of a direct call: one workspace's manifest varies, the other
\* workspaces hold a plain manifest
DepsManifestInits ==
    {f \in ManifestInits :
        Cardinality({w \in WsSet : Parses(f[w]) => f[w].hasDeps}) <= 1}

DepsInit ==
    /\ manifests \in DepsManifestInits
    /\ depCall = NoCall
    /\ BatchInit
    /\ ResIdle
    /\ PkgIdle

DepsNext ==
    \/ \E w \in WsSet, deps \in SeqsUpTo(DepArgs, MaxDeps), pm \in PackageManagers :
          CallAddDependencies(w, deps, pm)
    \/ \E w \in WsSet, deps \in SeqsUpTo(DepArgs, MaxDeps) :
          CallRemoveDependencies(w, deps)

SpecDeps == DepsInit /\ [][DepsNext]_vars

MaxPatterns == 2      \* longest list of workspace patterns of one source

Patterns_PackagesStar == <<"packages", "/", "*">>

Patterns == {Patterns_PackagesStar, <<"apps", "/", "*">>,
             <<"packages", "/", "ui">>}

\* the member directories that may hold a package.json
MemberDirs == {<<"packages", "/", "ui">>, <<"packages", "/", "core">>,
               <<"apps", "/", "web">>, <<"packages", "/", "node_modules">>}

\* every order in which the traversal may meet the manifests on disk
DiskOrders ==
    UNION {{f \in [1..Cardinality(S) -> S] :
               \A i, j \in 1..Cardinality(S) : f[i] = f[j] => i = j} :
           S \in SUBSET MemberDirs}

WorkspacesFields ==
    {NoWorkspaces, WsObjectBare}
    \cup {WsArray(ps) : ps \in SeqsUpTo(Patterns, MaxPatterns)}
    \cup {WsObject(ps) : ps \in SeqsUpTo(Patterns, 1)}

PnpmFiles ==
    {NoPnpmFile, PnpmBare} \cup {PnpmPackages(ps) : ps \in SeqsUpTo(Patterns, MaxPatterns)}

RootCfgs ==
    {[found |-> FALSE, workspaces |-> NoWorkspaces, pnpm |-> NoPnpmFile]}
    \cup [found : {TRUE}, workspaces : WorkspacesFields, pnpm : PnpmFiles]

\* workspace discovery over the roots and disks of the model
ResolveInit ==
    /\ manifests \in {CHOOSE m \in ManifestInits : TRUE}
    /\ depCall = NoCall
    /\ BatchInit
    /\ PkgIdle
    /\ rootCfg \in RootCfgs
    /\ disk \in DiskOrders
    /\ found = NoResult

ResolveNext ==
    \/ RunJsFindWorkspaces
    \/ RunTsFindWorkspaces
    \/ RunPkgFindInternalPackages

SpecResolve == ResolveInit /\ [][ResolveNext]_vars

\* the roots the package commands run in
PkgRootCfgs ==
    {[found |-> FALSE, workspaces |-> NoWorkspaces, pnpm |-> NoPnpmFile]}
    \cup [found : {TRUE},
          workspaces : {NoWorkspaces, WsArray(<<Patterns_PackagesStar>>),
                        WsObject(<<Patterns_PackagesStar>>)},
          pnpm : {NoPnpmFile}]

\* the package commands: a create, a list, or a create followed by a list
PkgInit ==
    /\ manifests \in {CHOOSE m \in ManifestInits : TRUE}
    /\ depCall = NoCall
    /\ BatchInit
    /\ rootCfg \in PkgRootCfgs
    /\ disk = <<>>
    /\ found = NoResult
    /\ tree \in TreeInits
    /\ turbo \in TurboStates
    /\ pkgCall = NoPkgCall

\* a create is the first command of a run of the model
PkgCreateEnabled ==
    /\ pkgCall.create.op = "none"
    /\ pkgCall.list.op = "none"
    /\ pkgCall.del.op = "none"

JsCreate ==
    /\ PkgCreateEnabled
    /\ \E name \in NameArgs, type \in PackageTypes, selectedType \in PackageTypes,
          useScope \in BOOLEAN, scope \in ScopeAnswers,
          packageName \in PackageNameAnswers, version \in Versions,
          build \in BuildAnswers :
          JsCreatePackage(name, type, selectedType, useScope, scope, packageName,
                          version, build)

TsCreate ==
    /\ PkgCreateEnabled
    /\ \E name \in NameArgs, type \in PackageTypes, selectedType \in PackageTypes,
          useScope \in BOOLEAN, scope \in ScopeAnswers,
          packageName \in PackageNameAnswers, version \in Versions,
          pm \in PmDetected :
          TsCreatePackage(name, type, selectedType, useScope, scope, packageName,
                          version, pm)

JsList ==
    /\ pkgCall.list.op = "none"
    /\ pkgCall.del.op = "none"
    /\ \E order \in ReaddirOrders(tree) : JsListPackages(order)

TsList ==
    /\ pkgCall.list.op = "none"
    /\ pkgCall.del.op = "none"
    /\ \E order \in ReaddirOrders(tree) : TsListPackages(order)

\* a delete is a run of the model by itself, on the tree as it was found
PkgDeleteEnabled ==
    /\ pkgCall.del.op = "none"
    /\ pkgCall.list.op = "none"
    /\ pkgCall.create.op = "none"

JsDelete ==
    /\ PkgDeleteEnabled
    /\ \E name \in DeleteNames, confirm \in BOOLEAN : JsDeletePackage(name, confirm)

TsDelete ==
    /\ PkgDeleteEnabled
    /\ \E order \in ReaddirOrders(tree), name \in DeleteNames, confirm \in BOOLEAN :
          TsDeletePackage(order, name, confirm)

PkgNext ==
    \/ JsCreate
    \/ TsCreate
    \/ JsList
    \/ TsList
    \/ JsDelete
    \/ TsDelete

SpecPkg == PkgInit /\ [][PkgNext]_vars

\* the package create of part_001, with its template question
TemplateCreate ==
    /\ PkgCreateEnabled
    /\ \E name \in NameArgs, type \in PackageTypes, selectedType \in PackageTypes,
          choice \in 1..Len(Templates), useScope \in BOOLEAN, scope \in ScopeAnswers,
          packageName \in PackageNameAnswers, version \in Versions,
          pm \in PmDetected :
          TemplateCreatePackage(name, type, selectedType, choice, useScope, scope,
                                packageName, version, pm)

\* part_001 never touches turbo.json: one state of it is enough
TemplateInit == PkgInit /\ turbo = "absent"

SpecTemplate == TemplateInit /\ [][TemplateCreate]_vars


-----------------------------------------------------------------------------
(* Claims *)

Keys(m) == IF Parses(m) /\ m.hasDeps THEN DOMAIN m.deps ELSE {}

\* C1: an internal add produces, for every requested name, the version
\* 'workspace:*' under pnpm and '*' under npm and yarn, and no other token.
C1_InternalAddToken ==
    \A p \in produced :
        p.token = IF p.pm = "pnpm" THEN WorkspaceStar ELSE Star

\* C2: removeDependencies with names that are not in the dependency map
\* (or with no dependency map at all) does not throw and leaves the set of
\* dependency entries as it was.
C2_RemoveMissingIsNoOp ==
    (/\ depCall.fn \in {"remove", "add-remove"}
     /\ depCall.deps # <<>>
     /\ Parses(depCall.before[depCall.ws])
     /\ \A i \in 1..Len(depCall.deps) :
           StripWorkspaceSuffix(depCall.deps[i]) \notin Keys(depCall.before[depCall.ws]))
    => /\ ~depCall.threw
       /\ DepEntries(manifests[depCall.ws]) = DepEntries(depCall.before[depCall.ws])

\* C2 witness: a remove of two names on a manifest with no dependency map
C2_Witness ==
    /\ depCall.fn = "remove"
    /\ Len(depCall.deps) = 2
    /\ Parses(depCall.before[depCall.ws])
    /\ ~depCall.before[depCall.ws].hasDeps
    /\ ~depCall.threw

\* the command line the invocation is to run for the i-th selected workspace
ExpectedLine(i) ==
    IF inv.impl = "js"
    THEN JsCommandLine(inv.pm, inv.cmd, inv.packages,
                       manifests[inv.selected[i]].name)
    ELSE TsCommandLine(inv)

\* C5: when the subprocess of a selected workspace exits non-zero, the run
\* ends with exit code 1, nothing is started for a later workspace, and the
\* commands before it are the forward commands of the earlier workspaces,
\* each run once.
C5_FailureAbortsBatch ==
    \A i \in 1..Len(cmdlog) :
        (cmdlog[i].kind = "workspace" /\ outcomes[i] = "fail")
        => /\ pc = "exited"
           /\ exitCode = 1
           /\ i = Len(cmdlog)
           /\ \A j \in 1..i :
                 /\ cmdlog[j].ws = inv.selected[j]
                 /\ cmdlog[j].line = ExpectedLine(j)
                 /\ j < i => outcomes[j] = "ok"

\* C5 witness: the second of three selected workspaces failed
C5_Witness ==
    /\ Len(inv.selected) = 3
    /\ Len(cmdlog) = 2
    /\ outcomes = <<"ok", "fail">>
    /\ pc = "exited"

C7_InterruptExitsGracefully ==
    interrupt.seen
    => /\ pc = "exited"
       /\ exitVia = "handleExit"
       /\ exitCode = 0
       /\ Len(cmdlog) = interrupt.started
       /\ manifests = interrupt.manifests

\* the member directories on disk that one of the patterns matches
MatchedDirs(patterns, d) ==
    {dir \in Range(d) :
        /\ ~Ignored(Join(dir, PackageJson))
        /\ \E i \in 1..Len(patterns) :
              GlobMatches(Join(patterns[i], PackageJson), Join(dir, PackageJson))}

\* C3: workspace discovery returns the member directories the patterns
\* match, none of them twice, in sorted order whatever the order of the
\* traversal; for packages/*, apps/* and two populated directories it
\* returns exactly those two.
C3_DiscoveryDedupSorted ==
    (found.op \in {"js", "ts"} /\ ~found.threw /\ found.patterns # <<>>)
    => /\ Range(found.list) = MatchedDirs(found.patterns, disk)
       /\ \A i, j \in 1..Len(found.list) :
             i < j => StrLess(found.list[i], found.list[j])
       /\ (found.patterns = DefaultPatterns
           /\ Range(disk) = {<<"packages", "/", "ui">>, <<"apps", "/", "web">>})
          => found.list = << <<"apps", "/", "web">>, <<"packages", "/", "ui">> >>

\* the patterns the claim's precedence gives: manifest, then pnpm file, then
\* the default pair
ClaimedPatterns(cfg) ==
    IF ManifestPatterns(cfg.workspaces) # <<>> THEN ManifestPatterns(cfg.workspaces)
    ELSE IF cfg.pnpm.kind = "packages" /\ cfg.pnpm.pats # <<>> THEN cfg.pnpm.pats
    ELSE DefaultPatterns

\* C4 as claimed: the patterns come from the root manifest's workspace field,
\* from the pnpm workspace file only when the manifest declares none, and
\* are the default pair only when neither declares any.
C4_ManifestThenPnpmThenDefault ==
    (found.op # "none" /\ ~found.threw)
    => found.patterns = ClaimedPatterns(rootCfg)

\* C4 as amended: findWorkspaces takes the patterns of the pnpm workspace
\* file when that file has a packages entry and otherwise those of the root
\* manifest's workspaces field, and returns the root directory alone when
\* that list is empty; findInternalPackages of the package commands takes
\* the root manifest's workspaces, never the pnpm file's, and uses the
\* default pair only when the manifest has no workspaces field.
C4_PnpmFileOverridesManifest ==
    LET ws == rootCfg.workspaces
        declared == IF ws.kind \in {"array", "object"} THEN ws.pats ELSE <<>>
    IN /\ (found.op \in {"js", "ts"} /\ ~found.threw)
          => /\ rootCfg.pnpm.kind = "packages" => found.patterns = rootCfg.pnpm.pats
             /\ rootCfg.pnpm.kind # "packages" => found.patterns = declared
             /\ found.patterns = <<>> => found.list = <<RootDir>>
       /\ (found.op = "pkg" /\ ~found.threw)
          => /\ ws.kind = "absent" => found.patterns = DefaultPatterns
             /\ ws.kind # "absent" => found.patterns = declared

\* C4 witness: the manifest and the pnpm file declare different patterns and
\* findWorkspaces has run
C4_Witness ==
    /\ found.op = "js"
    /\ rootCfg.workspaces = WsArray(<<Patterns_PackagesStar>>)
    /\ rootCfg.pnpm = PnpmPackages(<< <<"apps", "/", "*">> >>)
    /\ found.patterns = << <<"apps", "/", "*">> >>

\* C8: a create whose target directory already exists fails and leaves the
\* contents of that directory as they were.
C8_ExistingDirUntouched ==
    LET c == pkgCall.create
    IN (c.op # "none" /\ c.existed)
       => /\ c.exit = 1
          /\ tree[c.dir] = c.before[c.dir]

\* C8 witness: package.js was asked to create packages/foo, which existed
C8_Witness ==
    /\ pkgCall.create.op = "js"
    /\ pkgCall.create.existed
    /\ pkgCall.create.dir = <<"packages", "/", "foo">>
    /\ pkgCall.create.before[<<"packages", "/", "foo">>].exists

\* the name without its scope
Unscoped(name) == LET parts == Split(name) IN parts[Len(parts)]

\* C9: the new directory is under apps/ exactly when the type chosen for the
\* package (the prompt's answer) is app and under packages/ otherwise, and
\* it is named after the package name without its scope.
C9_DirFollowsChosenType ==
    LET c == pkgCall.create
    IN (c.op # "none" /\ c.exit = 0)
       => c.dir = Join(IF c.details.type = "app" THEN <<"apps">> ELSE <<"packages">>,
                       Unscoped(c.details.name))

\* the listing has a line for name with version
Reports(name, version) ==
    \E i \in 1..Len(pkgCall.list.lines) :
        /\ pkgCall.list.lines[i].name = name
        /\ pkgCall.list.lines[i].version = version

\* a member named @scope/foo was created under packages/ in a root whose
\* manifest is {"workspaces": ["packages/*"]}, and a list has run since
CreatedScopeFooThenListed ==
    /\ pkgCall.create.op # "none"
    /\ pkgCall.create.exit = 0
    /\ pkgCall.create.details.name = NameScopeFoo
    /\ Split(pkgCall.create.dir)[1] = <<"packages">>
    /\ rootCfg.workspaces = WsArray(<<Patterns_PackagesStar>>)
    /\ pkgCall.list.op # "none"

-----------------------------------------------------------------------------
(* Printed messages, exit status, detection *)

\* the errors the invocation has printed so far
Errors == {i \in 1..Len(reported) : reported[i].level = "error"}

\* C11: a member whose package.json is malformed or unreadable is skipped
\* with a warning and the run continues: no run ends on the error of parsing
\* a member's manifest.
C11_BadManifestNeverEndsRun ==
    \A i \in Errors : reported[i].msg # "package.json does not parse"

\* the invocation looks for the root package.json: index.js always does
\* (findWorkspaces opens every action); src/index.ts does when it offers the
\* workspaces for selection or resolves internal packages
Enumerates(i) ==
    \/ i.impl = "js"
    \/ i.impl = "ts" /\ (i.workspace = NoWorkspaceOption \/ i.internal)

\* the invocation has failed before anything ran: an error is printed, the
\* exit status is 1 and no package-manager command was started
FailedBeforeAnyCommand ==
    /\ pc = "exited"
    /\ exitCode = 1
    /\ Errors # {}
    /\ cmdlog = <<>>
    /\ produced = {}

\* C12 as stated: when no root package.json exists in the current directory
\* or above it, add, remove and install report the error, exit non-zero, run
\* no package-manager command and change no manifest.
C12_NoRootAlwaysFails ==
    (inv.impl # "none" /\ ~rootCfg.found) => FailedBeforeAnyCommand

\* C12 amended: when no root package.json exists, every add, remove and
\* install that looks for it (any invocation of index.js; src/index.ts
\* without --workspace or with --internal) fails with a printed error and
\* exit status 1 before any command runs or any manifest changes.
C12_NoRootFailsEnumeration ==
    (inv.impl # "none" /\ ~rootCfg.found /\ Enumerates(inv))
        => FailedBeforeAnyCommand

\* an invocation without --workspace stopped on the missing root manifest
C12_Witness ==
    /\ ~rootCfg.found
    /\ inv.impl = "ts"
    /\ inv.workspace = NoWorkspaceOption
    /\ pc = "exited"
    /\ \E i \in Errors : reported[i].msg = "No package.json found"

\* the manager the lock files name when yarn.lock is looked for first, then
\* package-lock.json, then pnpm-lock.yaml, and npm is the default
ClaimedManager(locks) ==
    IF "yarn.lock" \in locks THEN "yarn"
    ELSE IF "package-lock.json" \in locks THEN "npm"
    ELSE IF "pnpm-lock.yaml" \in locks THEN "pnpm"
    ELSE "npm"

\* C13: the detected manager is the one of the first lock file found in the
\* order yarn.lock, package-lock.json, pnpm-lock.yaml, npm when there is
\* none; it is one of npm, yarn, pnpm, and every command of the invocation,
\* the trailing install included, is a command of that manager.
C13_DetectionByLockfileOrder ==
    (inv.impl # "none" /\ inv.pm # NotDetected) =>
        /\ inv.pm = ClaimedManager(inv.locks)
        /\ inv.pm \in PackageManagers
        /\ \A c \in 1..Len(cmdlog) : Head(cmdlog[c].line) = Str(inv.pm)

\* package create printed an error: every path that ends with status 1
\* goes through the console.error of the command's catch, and a failed
\* build prints 'Error building package'
CreatePrintedError(c) == c.exit = 1 \/ c.build = "buildFailed"

\* C14: an invocation ends with status 1 if it printed an error and with
\* status 0 otherwise; no run that printed an error ends with status 0.
C14_ErrorMeansExitOne ==
    /\ pc = "exited" => (exitCode = 1 <=> Errors # {})
    /\ pkgCall.create.op # "none" =>
           (pkgCall.create.exit = 1 <=> CreatePrintedError(pkgCall.create))

\* C15: declining the confirmation of package delete deletes nothing and
\* the command ends as a success.
C15_DeclinedDeleteIsNoOp ==
    (pkgCall.del.op # "none" /\ pkgCall.del.asked /\ ~pkgCall.del.confirm)
        => tree = pkgCall.del.before /\ pkgCall.del.exit = 0

\* the confirmation for an existing member was declined
C15_Witness ==
    /\ pkgCall.del.op # "none"
    /\ pkgCall.del.asked
    /\ ~pkgCall.del.confirm
    /\ ExistsSync(tree, pkgCall.del.path)

\* the trailing installs started so far
Trailing == {c \in 1..Len(cmdlog) : cmdlog[c].kind = "trailing"}

\* the manifest of w holds the change the internal invocation asks for
Mutated(w) ==
    LET names == {StripWorkspaceSuffix(inv.packages[i]) : i \in 1..Len(inv.packages)}
    IN IF inv.cmd = "add" THEN names \subseteq Keys(manifests[w])
       ELSE names \cap Keys(manifests[w]) = {}

\* an install, if any, is the one command of an internal add / remove of
\* index.js, started after the manifest of every selected workspace was
\* changed
TrailingOnlyAfterMutations ==
    /\ Cardinality(Trailing) <= 1
    /\ Trailing # {} =>
          /\ inv.cmd \in {"add", "remove"} /\ inv.internal
          /\ Trailing = {Len(cmdlog)}
          /\ idx = Len(inv.selected)
          /\ \A i \in 1..Len(inv.selected) : Mutated(inv.selected[i])

TableFirstToken ==
    \A pm \in PackageManagers :
        /\ \A a \in Commands, pk \in CliPackages :
               Head(JsCommandLine(pm, a, pk, NameUi)) = Str(pm)
        /\ \A a \in {"add", "uninstall", "install"} :
               ResolveCommand(pm, a, <<>>).command = Str(pm)

CleanFlag ==
    [pm \in PackageManagers |->
        CASE pm = "npm"  -> Str("--clean-install")
          [] pm = "pnpm" -> Str("--force")
          [] pm = "yarn" -> Str("--clean")]

\* what follows the manager's binary and its install verb in a command line
FlagsOf(line) == SubSeq(line, 3, Len(line))

\* C18: the install that takes --clean and --frozen (src/index.ts) appends
\* npm --clean-install, pnpm --force, yarn --clean for --clean,
\* --frozen-lockfile for --frozen under every manager, and nothing without
\* the options; every workspace of the batch gets the same argument list.
C18_InstallFlags ==
    (inv.impl = "ts" /\ inv.cmd = "install") =>
        \A c \in 1..Len(cmdlog) :
            /\ FlagsOf(cmdlog[c].line) =
                   (IF inv.clean THEN <<CleanFlag[inv.pm]>> ELSE <<>>)
                   \o (IF inv.frozen THEN <<Str("--frozen-lockfile")>> ELSE <<>>)
            /\ cmdlog[c].line = cmdlog[1].line

\* a clean, frozen install has run in two workspaces
C18_Witness ==
    /\ inv.impl = "ts" /\ inv.cmd = "install"
    /\ inv.clean /\ inv.frozen
    /\ inv.pm = "npm"
    /\ Len(cmdlog) = 2
    /\ cmdlog[1].ws # cmdlog[2].ws

\* add was given no package name and no --internal
BareAdd == inv.impl # "none" /\ inv.cmd = "add" /\ ~inv.cli.flag /\ inv.cli.given = <<>>

\* add was given --internal and no package name
InternalAddWithoutNames ==
    inv.impl # "none" /\ inv.cmd = "add" /\ inv.cli.flag /\ inv.cli.given = <<>>

\* the selection of internal packages was shown, or there was nothing to
\* show and the run failed before any command
SelectionOpened == inv.cli.prompted \/ FailedBeforeAnyCommand

C20_WorkspaceOption ==
    (inv.impl = "ts" /\ inv.workspace # NoWorkspaceOption) =>
        /\ \A c \in 1..Len(cmdlog) : cmdlog[c].ws = inv.workspace
        /\ Len(cmdlog) <= 1
        /\ (pc = "exited" /\ exitCode = 0) => Len(cmdlog) = 1
        /\ inv.workspace \notin WsSet => FailedBeforeAnyCommand

\* an add with --workspace has run its one command and ended
C20_Witness ==
    /\ inv.impl = "ts" /\ inv.cmd = "add"
    /\ inv.workspace = WsUi
    /\ pc = "exited" /\ exitCode = 0
    /\ Len(cmdlog) = 1
    /\ cmdlog[1].ws = WsUi

-----------------------------------------------------------------------------
(* Internal packages by name *)

\* the manifest names of the members that an internal lookup can find
InternalNames ==
    {manifests[w].name : w \in {v \in WsSet : Parses(manifests[v])}}

\* the internal names a requested name stands for: the name itself or a
\* name that ends with '/<name>'
NamesFor(requested) ==
    {n \in InternalNames : n = requested \/ EndsWith(n, <<"/">> \o requested)}

\* add or remove of src/index.ts with --internal and names on the command
\* line, past the point where the names are resolved
TsInternalByName ==
    /\ inv.impl = "ts"
    /\ inv.cmd \in {"add", "remove"}
    /\ inv.cli.flag
    /\ inv.cli.given # <<>>

-----------------------------------------------------------------------------
(* Package delete by name *)

\* the directories of the tree t whose manifest parses and is named name
NamedMembers(t, name) ==
    {d \in DOMAIN t : ParsesAt(t, d) /\ t[d].files["package.json"].name = name}

\* C22: a confirmed package delete <name> removes exactly the directory of
\* the member whose manifest name equals <name> and leaves every other
\* member directory as it was; when no member has that name the command
\* ends with status 1 and removes nothing.
C22_DeleteByManifestName ==
    pkgCall.del.op # "none" =>
        /\ (pkgCall.del.asked /\ pkgCall.del.confirm) =>
              /\ pkgCall.del.path \in NamedMembers(pkgCall.del.before, pkgCall.del.name)
              /\ tree = RmSync(pkgCall.del.before, pkgCall.del.path)
        /\ NamedMembers(pkgCall.del.before, pkgCall.del.name) = {} =>
              /\ pkgCall.del.exit = 1
              /\ tree = pkgCall.del.before

\* the same statement for deletePackage of package.ts alone
C22_TsDeleteByManifestName ==
    pkgCall.del.op = "ts" => C22_DeleteByManifestName


-----------------------------------------------------------------------------
(* Keys written by an interactive internal add *)

\* an internal add of index.js: its packages come from the selection prompt
JsInternalAdd == inv.impl = "js" /\ inv.cmd = "add" /\ inv.internal

\* C23: after an internal add through the interactive selection, the key
\* written for each chosen package in the manifest of every processed
\* workspace is exactly the package's manifest name, and no key of the
\* dependency map carries an "@workspace:" suffix.
C23_SelectedKeyIsManifestName ==
    JsInternalAdd =>
        \A i \in 1..idx :
            LET keys == Keys(manifests[inv.selected[i]])
            IN /\ keys \subseteq InternalNames
               /\ \A p \in 1..Len(inv.packages) :
                     \E n \in InternalNames :
                        /\ inv.packages[p] = JsInternalChoice([name |-> n])
                        /\ n \in keys


-----------------------------------------------------------------------------
(* The template question of package create *)

\* C24: every choice of the template question carries a value for which
\* getTemplate succeeds and returns the template whose display name was
\* shown; the lookup never ends with 'Template not found'.
C24_TemplateChoiceResolves ==
    pkgCall.tpl.looked =>
        /\ ~pkgCall.tpl.threw
        /\ \E i \in 1..Len(Templates) :
              /\ Templates[i].name = pkgCall.tpl.got
              /\ ListTemplates[i].name = pkgCall.tpl.shown


-----------------------------------------------------------------------------
(* Arguments of an internal add *)

\* the string t occurs in the string s
Includes(s, t) ==
    \E k \in 0..(Len(s) - Len(t)) : SubSeq(s, k + 1, k + Len(t)) = t

\* the argument names the internal package kept in workspace w, by its
\* manifest name or by its directory
NamesPackage(arg, w) == Includes(arg, manifests[w].name) \/ Includes(arg, w)

\* C25: under npm, yarn and pnpm every internal package requested with
\* add --internal reaches the package manager's add command as an argument
\* that contains its resolved name or its directory path.
C25_InternalAddArgumentNamesPackage ==
    (TsInternalByName /\ inv.cmd = "add" /\ inv.pm \in {"npm", "yarn", "pnpm"}) =>
        \A c \in 1..Len(cmdlog) :
            \A i \in 1..Len(inv.cli.given) :
                \E a \in 1..Len(cmdlog[c].line), w \in WsSet :
                    /\ Parses(manifests[w])
                    /\ manifests[w].name \in NamesFor(inv.cli.given[i])
                    /\ NamesPackage(cmdlog[c].line[a], w)

\* the same statement for npm and pnpm alone
C25_NpmPnpmArgumentNamesPackage ==
    inv.pm # "yarn" => C25_InternalAddArgumentNamesPackage


-----------------------------------------------------------------------------
(* Frame and round trip of addDependencies / removeDependencies *)

\* the manifest a differs from the manifest b in its dependency map at most
SameButDependencies(a, b) ==
    IF ~Parses(b) THEN a = b
    ELSE /\ Parses(a)
         /\ a.name = b.name
         /\ a.version = b.version
         /\ a.private = b.private
         /\ a.devDeps = b.devDeps

\* C26: addDependencies and removeDependencies change only the dependency
\* map of the target workspace's manifest: its other fields and the
\* manifests of the other workspaces stay as they were.
C26_OnlyDependencyMapChanges ==
    depCall.fn # "none" =>
        /\ \A w \in WsSet \ {depCall.ws} : manifests[w] = depCall.before[w]
        /\ SameButDependencies(manifests[depCall.ws], depCall.before[depCall.ws])

\* an add that changed the dependency map of its target
C26_Witness ==
    /\ depCall.fn = "add"
    /\ ~depCall.threw
    /\ Len(depCall.deps) = 2
    /\ DepEntries(manifests[depCall.ws]) # DepEntries(depCall.before[depCall.ws])

\* removeDependencies ran right after addDependencies, on the same
\* workspace and with the same names, none of which the manifest listed
AddThenRemoveOfNewNames ==
    /\ depCall.fn = "add-remove"
    /\ depCall.deps = depCall.prev.deps
    /\ depCall.deps # <<>>
    /\ Parses(depCall.prev.before[depCall.ws])
    /\ \A i \in 1..Len(depCall.deps) :
          /\ depCall.deps[i] \notin Keys(depCall.prev.before[depCall.ws])
          /\ StripWorkspaceSuffix(depCall.deps[i])
                \notin Keys(depCall.prev.before[depCall.ws])

\* C27: for a manifest that lists none of the given names, addDependencies
\* followed by removeDependencies with the same names leaves the dependency
\* map with exactly the entries it had, for every manager and for names
\* with or without the "@workspace:" suffix.
C27_AddThenRemoveRestores ==
    AddThenRemoveOfNewNames =>
        DepEntries(manifests[depCall.ws]) = DepEntries(depCall.prev.before[depCall.ws])

\* a round trip under pnpm with a suffixed name, on a manifest that has
\* other dependencies
C27_Witness ==
    /\ AddThenRemoveOfNewNames
    /\ depCall.prev.pm = "pnpm"
    /\ \E i \in 1..Len(depCall.deps) : EndsWith(depCall.deps[i], <<"@", "workspace:">>)
    /\ DepEntries(manifests[depCall.ws]) # {}


-----------------------------------------------------------------------------
(* Members reported by findInternalPackages of package.ts *)

\* C28: findInternalPackages of package.ts reports each member directory at
\* most once, also when two declared patterns share their first path
\* segment.
C28_MembersReportedOnce ==
    found.op = "pkg" =>
        \A i, j \in 1..Len(found.list) : i < j => found.list[i] # found.list[j]


-----------------------------------------------------------------------------
(* A create that fails on an existing directory *)

\* this step is a package create that failed because its target directory
\* was already there
CreateFailsOnExisting ==
    /\ pkgCall.create.op = "none"
    /\ pkgCall'.create.op # "none"
    /\ pkgCall'.create.existed
    /\ pkgCall'.create.exit = 1

\* C29: a package create that fails because the target directory already
\* exists leaves every file of the workspace root as it was, the build
\* outputs of the root turbo.json included.
C29_FailedCreateChangesNothing ==
    [][CreateFailsOnExisting => (turbo' = turbo /\ tree' = tree)]_vars

\* the same statement for createPackage of package.ts alone
C29_TsFailedCreateChangesNothing ==
    [][(CreateFailsOnExisting /\ pkgCall'.create.op = "ts")
          => (turbo' = turbo /\ tree' = tree)]_vars

====
